---- MODULE Spec2Model ----
(***************************************************************************)
(* Secure-Web-Socket: the Noise XXpsk2 channel between client.rs and       *)
(* server.rs (handshake, transport encrypt/decrypt, timer-driven rekey).   *)
(* the key supply of qkd_module.rs as used by bob.rs, qkd_server.rs and    *)
(* lib.rs, and the relay of qkd_server.rs (registry, buses, three duties    *)
(* per connection).                                                        *)
(*                                                                         *)
(* Cryptography is symbolic.  A transport key is the triple (psk bound     *)
(* into the handshake, direction, generation); a ciphertext carries the    *)
(* key and nonce it was produced under, its plaintext and whether its      *)
(* AEAD tag is still intact.  snow's TransportState is modelled after its  *)
(* documented behaviour: read_message verifies the tag under the receive   *)
(* key at the receive nonce and advances the nonce only on success;        *)
(* rekey_outgoing/rekey_incoming replace the key by a one-way function of  *)
(* it and leave the nonce counter as it is (Noise specification, 11.3).    *)
(***************************************************************************)
EXTENDS Integers, Sequences, FiniteSets, TLC

\* ------------------------------------------------------------- bounds
MaxChat == 2
MaxRekey == 2
MaxRuns == 2
MaxConn == 2
MaxLines == 2
MaxPlainLen == 40
MaxDutyOps == 2
MaxNow == 70
MaxGarbled == 1

\* ------------------------------------------------------------ channel
VARIABLES
    psk,        \* psk[x]: the pre-shared key side x was built with
    hs,         \* hs[x]: handshake / connection state of side x
    sess,       \* sess[x]: the NoiseSession of side x
    net,        \* net[d]: frames in flight on direction d, oldest first
    rekey_due,  \* server: Instant::now() >= next_rekey_time
    lastDec,    \* lastDec[x]: what the last NoiseSession::decrypt of x saw and returned
    errs,       \* errs[x]: DecryptionErrors side x has reported
    typed,      \* typed[x]: chat lines side x has read from stdin
    faults      \* the one fault the carrier has injected: its kind and direction

chanVars == <<psk, hs, sess, net, rekey_due, lastDec, errs, typed, faults>>

\* --------------------------------------------------------- key supply
VARIABLES
    kep,        \* the program being run: "bob", "relay" or "lib" (get_key_for_user)
    kargs,      \* lib: the (username, target_username) arguments
    kpc,        \* where the run is
    ksize,      \* config.general.key_size
    kkey,       \* the key bytes the last get_key returned
    knet,       \* the network interactions of this run, in order
    kres,       \* the result of the run
    klog,       \* every PSK a run has accepted: who asked, for which peer, the key
    kruns       \* runs started

keyVars == <<kep, kargs, kpc, ksize, kkey, knet, kres, klog, kruns>>

\* -------------------------------------------------------------- relay
VARIABLES
    rconn,          \* rconn[i]: connection i of qkd_server.rs: state, declared name,
                    \* client id, whether the peer is still there, bus cursors
    client_counter, \* the connection-id counter
    clients,        \* the registry: client id -> display name
    rsess,          \* rsess[i]: the NoiseSession of connection i
    rtask,          \* rtask[i]: which of the three tasks of connection i still run
    bus,            \* every ChatMessage sent on broadcast_tx, oldest first
    cmdbus,         \* every ServerCommand sent on server_cmd_tx, oldest first
    rout            \* rout[i]: the frames handed to connection i's sink, in order

relayVars == <<rconn, client_counter, clients, rsess, rtask, bus, cmdbus, rout>>

\* ------------------------------------------------------------ lengths
VARIABLES
    lenPc,          \* "plain": a plaintext is at hand; "cipher": it was encrypted;
                    \* "back": the ciphertext was decrypted again
    plainLen,       \* the length of the plaintext
    cipherLen,      \* what encrypt returned: a length, or EncErr
    backLen         \* what decrypt of that ciphertext returned: a length, or EncErr

lenVars == <<lenPc, plainLen, cipherLen, backLen>>

\* ------------------------------------------------------------- duties
\* one connected endpoint, its concurrent duties and the two mutexes they
\* share: Arc<Mutex<NoiseSession>> and Arc<Mutex<ws_sender>>
VARIABLES
    dep,            \* which program the endpoint is: "server", "client", "relay"
    dpc,            \* duty -> where the duty stands
    dsess,          \* the NoiseSession behind the mutex
    dlock,          \* the duty that holds the session guard, or Free
    dwlock,         \* the duty that holds the ws_sender guard, or Free
    dheld,          \* duty -> the ciphertext it encrypted and has not sent yet
    dwire,          \* the frames handed to the sink, in the order of the hand-over
    dmade,          \* the ciphertexts encrypt returned, in the order of the calls
    ddue,           \* the rekey deadline has passed
    dsnap,          \* the session as the timer's encrypt of the signal left it
    din,            \* the inbound frame the receiving duty took from the stream
    dinN,           \* the number of frames the peer has sent
    dlast,          \* the last decrypt: the session before it and the outcome
    dops,           \* lines typed, bus messages and inbound frames so far
    dreturned,      \* the function that spawned the duties has returned
    dpub            \* what the relay's receive_task sent to the broadcast channel

dutyVars == <<dep, dpc, dsess, dlock, dwlock, dheld, dwire, dmade, ddue, dsnap,
              din, dinN, dlast, dops, dreturned, dpub>>

\* -------------------------------------------------------------- clock
\* the rekey scheduler of one server session against the monotonic clock,
\* in seconds since the session entered transport mode
VARIABLES
    now,             \* Instant::now()
    next_rekey_time, \* NoiseSession.next_rekey_time: the current deadline
    deadline_set,    \* the moment the current deadline was set
    next_tick,       \* when the timer's interval fires next
    tpc,             \* where timer_task stands
    trekeys,         \* NoiseSession.rekey_count
    nsignals         \* the number of rekey signals emitted

clockVars == <<now, next_rekey_time, deadline_set, next_tick, tpc, trekeys,
               nsignals>>

vars == <<chanVars, keyVars, relayVars, lenVars, dutyVars, clockVars>>

\* what an action of the channel leaves alone outside the channel
notChan == <<keyVars, relayVars, lenVars, dutyVars, clockVars>>
\* what an action of the key supply leaves alone outside the key supply
notKey == <<chanVars, relayVars, lenVars, dutyVars, clockVars>>
\* what an action of the relay leaves alone outside the relay
notRelay == <<chanVars, keyVars, lenVars, dutyVars, clockVars>>
\* what an action on lengths leaves alone
notLen == <<chanVars, keyVars, relayVars, dutyVars, clockVars>>
\* what a step of a duty leaves alone
notDuty == <<chanVars, keyVars, relayVars, lenVars, clockVars>>
\* what a step of the scheduler leaves alone
notClock == <<chanVars, keyVars, relayVars, lenVars, dutyVars>>

Sides == {"c", "s"}
Peer(x) == IF x = "c" THEN "s" ELSE "c"
\* the direction side x sends on / receives on
OutDir(x) == IF x = "c" THEN "c2s" ELSE "s2c"
InDir(x) == IF x = "c" THEN "s2c" ELSE "c2s"
Psks == {"k1", "k2"}
Lines == {"hi", "yo"}
\* the n-th line a user types: consecutive lines differ
LineAt(n) == IF n % 2 = 1 THEN "hi" ELSE "yo"
Absent == "<absent>"

\* ------------------------------------------------------ wire envelope
\* The Rust values
Chat(sender, content) == [variant |-> "Chat", sender |-> sender, content |-> content]
Rekey == [variant |-> "Rekey", sender |-> Absent, content |-> Absent]
NoMsg == [variant |-> "None", sender |-> Absent, content |-> Absent]

\* serde_json::to_string(&ControlMessage), #[serde(tag = "type")]
ToJson(m) ==
    IF m.variant = "Chat"
    THEN [type |-> "chat", sender |-> m.sender, content |-> m.content]
    ELSE [type |-> "rekey", sender |-> Absent, content |-> Absent]

NoJson == [type |-> Absent, sender |-> Absent, content |-> Absent]

\* serde_json::from_str::<ControlMessage>: Err is NoMsg
FromJson(j) ==
    IF j.type = "chat" /\ j.sender # Absent /\ j.content # Absent
    THEN Chat(j.sender, j.content)
    ELSE IF j.type = "rekey" THEN Rekey ELSE NoMsg

\* ------------------------------------------------------- cipher state
Key(p, d, g) == [psk |-> p, dir |-> d, gen |-> g]
NoKey == Key("none", "none", 0)

NoSession ==
    [sk |-> NoKey, sn |-> 0, rk |-> NoKey, rn |-> 0,
     message_count |-> 0, rekey_count |-> 0]

\* HandshakeState::into_transport_mode + NoiseSession::new.  Split() gives the
\* initiator the first key to send with and the second to receive with, the
\* responder the reverse; both keys are bound to the psk mixed in by psk2.
\* a responder that keeps the initiator's order of the two keys
NewSessionNoSwap(x, p) ==
    [sk |-> Key(p, "c2s", 0), sn |-> 0,
     rk |-> Key(p, "s2c", 0), rn |-> 0,
     message_count |-> 0, rekey_count |-> 0]

NewSession(x, p) ==
    [sk |-> Key(p, OutDir(x), 0), sn |-> 0,
     rk |-> Key(p, InDir(x), 0), rn |-> 0,
     message_count |-> 0, rekey_count |-> 0]

Frame(t, k, n, pt, tag) == [t |-> t, k |-> k, n |-> n, pt |-> pt, tag |-> tag]
NoFrame == Frame("none", NoKey, 0, NoJson, FALSE)
CloseFrame == Frame("close", NoKey, 0, NoJson, TRUE)
\* handshake messages: -> e ; <- e, ee, s, es, psk ; -> s, se
Hs1 == Frame("hs1", NoKey, 0, NoJson, TRUE)
Hs2(p) == Frame("hs2", Key(p, "hs", 0), 0, NoJson, TRUE)
Hs3(p) == Frame("hs3", Key(p, "hs", 0), 0, NoJson, TRUE)

\* an encrypt that leaves the send nonce where it was
EncryptSessNoAdvance(s) == [s EXCEPT !.message_count = @ + 1]

\* NoiseSession::encrypt: the ciphertext and the session afterwards
EncryptCt(s, pt) == Frame("ct", s.sk, s.sn, pt, TRUE)
EncryptSess(s) == [s EXCEPT !.sn = @ + 1, !.message_count = @ + 1]

\* a decrypt that does not bind the tag to the nonce position
DecryptOkNoNonce(s, f) == f.t = "ct" /\ f.tag /\ f.k = s.rk
\* a decrypt that accepts any intact ciphertext of the session's direction
DecryptOkTagOnly(s, f) ==
    f.t = "ct" /\ f.tag /\ f.k.psk = s.rk.psk /\ f.k.dir = s.rk.dir

\* a decrypt that counts the message before it knows the outcome
DecryptSessCountsAll(s, f) ==
    IF f.t = "ct" /\ f.tag /\ f.k = s.rk /\ f.n = s.rn
    THEN [s EXCEPT !.rn = @ + 1, !.message_count = @ + 1]
    ELSE [s EXCEPT !.message_count = @ + 1]

\* NoiseSession::decrypt: whether read_message accepts, and the session afterwards
DecryptOk(s, f) == f.t = "ct" /\ f.tag /\ f.k = s.rk /\ f.n = s.rn
DecryptSess(s, f) ==
    IF DecryptOk(s, f)
    THEN [s EXCEPT !.rn = @ + 1, !.message_count = @ + 1]
    ELSE s

\* Cipher::rekey: k' = REKEY(k), the nonce is not touched
RekeyKey(k) == [k EXCEPT !.gen = @ + 1]

\* a rotation of the sending direction alone
PerformRekeyOutgoingOnly(s) == [s EXCEPT !.rekey_count = @ + 1, !.sk = RekeyKey(@)]

\* a rotation that also sets both nonce counters back to zero
PerformRekeyResetNonce(s) ==
    [s EXCEPT !.rekey_count = @ + 1, !.sk = RekeyKey(@), !.rk = RekeyKey(@),
              !.sn = 0, !.rn = 0]

\* a rotation that forgets to count itself
PerformRekeyNoCount(s) == [s EXCEPT !.sk = RekeyKey(@), !.rk = RekeyKey(@)]

\* NoiseSession::perform_rekey
PerformRekey(s) ==
    [s EXCEPT !.rekey_count = @ + 1, !.sk = RekeyKey(@), !.rk = RekeyKey(@)]

NoDec == [st |-> "none", f |-> NoFrame, rn |-> 0, rk |-> NoKey, out |-> NoJson]
DecRecord(s, f) ==
    [st |-> IF DecryptOk(s, f) THEN "ok" ELSE "err",
     f |-> f, rn |-> s.rn, rk |-> s.rk,
     out |-> IF DecryptOk(s, f) THEN f.pt ELSE NoJson]

Dead(x) == hs[x] \in {"Aborted", "Closed"}

NoFault == [kind |-> "none", dir |-> "none"]

\* ---------------------------------------------------------------- Init
ChanInit ==
    /\ psk \in {[c |-> p, s |-> "k1"] : p \in Psks}
    /\ hs = [c |-> "Idle", s |-> "AwaitMsg1"]
    /\ sess = [x \in Sides |-> NoSession]
    /\ net = [c2s |-> <<>>, s2c |-> <<>>]
    /\ rekey_due = FALSE
    /\ lastDec = [x \in Sides |-> NoDec]
    /\ errs = [x \in Sides |-> 0]
    /\ typed = [x \in Sides |-> 0]
    /\ faults = NoFault

\* ----------------------------------------------------------- handshake
\* a read_message that does not check what the PSK was mixed into
ReadHandshakeNoPsk(st, p, f) ==
    /\ f.tag
    /\ \/ st = "AwaitMsg1" /\ f.t = "hs1"
       \/ st = "AwaitMsg2" /\ f.t = "hs2"
       \/ st = "AwaitMsg3" /\ f.t = "hs3"

\* `Message::Binary(data)` and handshake.read_message(&data, ..) is Ok: the
\* frame is the handshake message the state expects, intact, and from the
\* second message on authenticated under the endpoint's own PSK
ReadHandshake(st, p, f) ==
    /\ f.tag
    /\ \/ st = "AwaitMsg1" /\ f.t = "hs1"
       \/ st = "AwaitMsg2" /\ f.t = "hs2" /\ f.k.psk = p
       \/ st = "AwaitMsg3" /\ f.t = "hs3" /\ f.k.psk = p

\* perform_noise_handshake_initiator, up to the first send
ClientHello ==
    /\ hs["c"] = "Idle"
    /\ net' = [net EXCEPT !["c2s"] = Append(@, Hs1)]
    /\ hs' = [hs EXCEPT !["c"] = "AwaitMsg2"]
    /\ UNCHANGED <<psk, sess, rekey_due, lastDec, errs, typed, faults>>
    /\ UNCHANGED notChan

\* perform_noise_handshake_responder, first frame
ServerRecvMsg1 ==
    /\ hs["s"] = "AwaitMsg1"
    /\ net["c2s"] # <<>>
    /\ LET f == Head(net["c2s"]) IN
       IF ReadHandshake(hs["s"], psk["s"], f)
       THEN /\ hs' = [hs EXCEPT !["s"] = "AwaitMsg3"]
            /\ net' = [net EXCEPT !["c2s"] = Tail(@),
                                  !["s2c"] = Append(@, Hs2(psk["s"]))]
       ELSE /\ hs' = [hs EXCEPT !["s"] = "Aborted"]
            /\ net' = [net EXCEPT !["c2s"] = Tail(@)]
    /\ UNCHANGED <<psk, sess, rekey_due, lastDec, errs, typed, faults>>
    /\ UNCHANGED notChan

\* perform_noise_handshake_initiator, the response
ClientRecvMsg2 ==
    /\ hs["c"] = "AwaitMsg2"
    /\ net["s2c"] # <<>>
    /\ LET f == Head(net["s2c"]) IN
       IF ReadHandshake(hs["c"], psk["c"], f)
       THEN /\ hs' = [hs EXCEPT !["c"] = "Transport"]
            /\ net' = [net EXCEPT !["s2c"] = Tail(@),
                                  !["c2s"] = Append(@, Hs3(psk["c"]))]
            /\ sess' = [sess EXCEPT !["c"] = NewSession("c", psk["c"])]
       ELSE /\ hs' = [hs EXCEPT !["c"] = "Aborted"]
            /\ net' = [net EXCEPT !["s2c"] = Tail(@)]
            /\ UNCHANGED sess
    /\ UNCHANGED <<psk, rekey_due, lastDec, errs, typed, faults>>
    /\ UNCHANGED notChan

\* perform_noise_handshake_initiator at the grain of its awaits: the
\* response is read, the final message is written and its send completes
ClientReadMsg2 ==
    /\ hs["c"] = "AwaitMsg2"
    /\ net["s2c"] # <<>>
    /\ LET f == Head(net["s2c"]) IN
       IF ReadHandshake(hs["c"], psk["c"], f)
       THEN /\ hs' = [hs EXCEPT !["c"] = "SentMsg3"]
            /\ net' = [net EXCEPT !["s2c"] = Tail(@),
                                  !["c2s"] = Append(@, Hs3(psk["c"]))]
       ELSE /\ hs' = [hs EXCEPT !["c"] = "Aborted"]
            /\ net' = [net EXCEPT !["s2c"] = Tail(@)]
    /\ UNCHANGED <<psk, sess, rekey_due, lastDec, errs, typed, faults>>
    /\ UNCHANGED notChan

\* ... and, once the send has returned, handshake.into_transport_mode() and
\* NoiseSession::new
ClientIntoTransport ==
    /\ hs["c"] = "SentMsg3"
    /\ hs' = [hs EXCEPT !["c"] = "Transport"]
    /\ sess' = [sess EXCEPT !["c"] = NewSession("c", psk["c"])]
    /\ UNCHANGED <<psk, net, rekey_due, lastDec, errs, typed, faults>>
    /\ UNCHANGED notChan

\* perform_noise_handshake_responder, second frame
ServerRecvMsg3 ==
    /\ hs["s"] = "AwaitMsg3"
    /\ net["c2s"] # <<>>
    /\ LET f == Head(net["c2s"]) IN
       IF ReadHandshake(hs["s"], psk["s"], f)
       THEN /\ hs' = [hs EXCEPT !["s"] = "Transport"]
            /\ sess' = [sess EXCEPT !["s"] = NewSession("s", psk["s"])]
       ELSE /\ hs' = [hs EXCEPT !["s"] = "Aborted"]
            /\ UNCHANGED sess
    /\ net' = [net EXCEPT !["c2s"] = Tail(@)]
    /\ rekey_due' = FALSE
    /\ UNCHANGED <<psk, lastDec, errs, typed, faults>>
    /\ UNCHANGED notChan

\* ws_receiver.next() yields None or Err during the handshake: the peer is gone
HandshakeStreamEnd(x) ==
    /\ hs[x] \in {"AwaitMsg1", "AwaitMsg2", "AwaitMsg3"}
    /\ Dead(Peer(x))
    /\ net[InDir(x)] = <<>>
    /\ hs' = [hs EXCEPT ![x] = "Aborted"]
    /\ UNCHANGED <<psk, sess, net, rekey_due, lastDec, errs, typed, faults>>
    /\ UNCHANGED notChan

\* ----------------------------------------------------------- transport
\* sender.send(Message::Binary(..)): fails only when the peer is gone
SendOutcomes(x) == IF Dead(Peer(x)) THEN BOOLEAN ELSE {TRUE}

\* input_task of client.rs / server.rs: one chat line typed by the user
Input(x, line) ==
    /\ hs[x] = "Transport"
    /\ typed[x] < MaxChat
    /\ line = LineAt(typed[x] + 1)
    /\ typed' = [typed EXCEPT ![x] = @ + 1]
    /\ LET chat_msg == Chat(IF x = "c" THEN "Client" ELSE "Server", line)
           encrypted == EncryptCt(sess[x], ToJson(chat_msg))
       IN  /\ sess' = [sess EXCEPT ![x] = EncryptSess(@)]
           /\ \E sent \in SendOutcomes(x) :
                IF sent
                THEN /\ net' = [net EXCEPT ![OutDir(x)] = Append(@, encrypted)]
                     /\ UNCHANGED hs
                ELSE /\ hs' = [hs EXCEPT ![x] = "Closed"]
                     /\ UNCHANGED net
    /\ UNCHANGED <<psk, rekey_due, lastDec, errs, faults>>
    /\ UNCHANGED notChan

ClientInput == \E line \in Lines : Input("c", line)
ServerInput == \E line \in Lines : Input("s", line)

\* client.rs input_task, "quit": Close is sent and the task ends
ClientQuit ==
    /\ hs["c"] = "Transport"
    /\ hs' = [hs EXCEPT !["c"] = "Closed"]
    /\ \E sent \in SendOutcomes("c") :
         net' = [net EXCEPT !["c2s"] = IF sent THEN Append(@, CloseFrame) ELSE @]
    /\ UNCHANGED <<psk, sess, rekey_due, lastDec, errs, typed, faults>>
    /\ UNCHANGED notChan

\* server.rs input_task, "quit": the task ends, nothing is sent
ServerQuit ==
    /\ hs["s"] = "Transport"
    /\ hs' = [hs EXCEPT !["s"] = "Closed"]
    /\ UNCHANGED <<psk, sess, net, rekey_due, lastDec, errs, typed, faults>>
    /\ UNCHANGED notChan

\* incoming_task of client.rs: one frame from the server
ClientIncoming ==
    /\ hs["c"] = "Transport"
    /\ net["s2c"] # <<>>
    /\ LET f == Head(net["s2c"])
           s == sess["c"]
           msg == FromJson(f.pt)
       IN  /\ net' = [net EXCEPT !["s2c"] = Tail(@)]
           /\ IF f.t = "close"
              THEN /\ hs' = [hs EXCEPT !["c"] = "Closed"]
                   /\ UNCHANGED <<sess, lastDec, errs>>
              ELSE /\ UNCHANGED hs
                   /\ lastDec' = [lastDec EXCEPT !["c"] = DecRecord(s, f)]
                   /\ IF DecryptOk(s, f)
                      THEN /\ sess' = [sess EXCEPT !["c"] =
                                  IF msg.variant = "Rekey"
                                  THEN PerformRekey(DecryptSess(s, f))
                                  ELSE DecryptSess(s, f)]
                           /\ UNCHANGED errs
                      ELSE /\ errs' = [errs EXCEPT !["c"] = @ + 1]
                           /\ UNCHANGED sess
    /\ UNCHANGED <<psk, rekey_due, typed, faults>>
    /\ UNCHANGED notChan

\* incoming_task of server.rs: one frame from the client
ServerIncoming ==
    /\ hs["s"] = "Transport"
    /\ net["c2s"] # <<>>
    /\ LET f == Head(net["c2s"])
           s == sess["s"]
       IN  /\ net' = [net EXCEPT !["c2s"] = Tail(@)]
           /\ IF f.t = "close"
              THEN /\ hs' = [hs EXCEPT !["s"] = "Closed"]
                   /\ UNCHANGED <<sess, lastDec, errs>>
              ELSE /\ UNCHANGED hs
                   /\ lastDec' = [lastDec EXCEPT !["s"] = DecRecord(s, f)]
                   /\ sess' = [sess EXCEPT !["s"] = DecryptSess(s, f)]
                   /\ errs' = [errs EXCEPT !["s"] =
                                  IF DecryptOk(s, f) THEN @ ELSE @ + 1]
    /\ UNCHANGED <<psk, rekey_due, typed, faults>>
    /\ UNCHANGED notChan

\* the while-let over ws_receiver ends: the peer is gone and nothing is left to read
StreamEnd(x) ==
    /\ hs[x] = "Transport"
    /\ Dead(Peer(x))
    /\ net[InDir(x)] = <<>>
    /\ hs' = [hs EXCEPT ![x] = "Closed"]
    /\ UNCHANGED <<psk, sess, net, rekey_due, lastDec, errs, typed, faults>>
    /\ UNCHANGED notChan

\* --------------------------------------------------------------- rekey
\* the clock passes next_rekey_time
DeadlinePasses ==
    /\ hs["s"] = "Transport"
    /\ ~rekey_due
    /\ sess["s"].rekey_count < MaxRekey
    /\ rekey_due' = TRUE
    /\ UNCHANGED <<psk, hs, sess, net, lastDec, errs, typed, faults>>
    /\ UNCHANGED notChan

\* timer_task of server.rs: a tick at which should_rekey() holds
ServerTimerRekey ==
    /\ hs["s"] = "Transport"
    /\ rekey_due
    /\ LET encrypted == EncryptCt(sess["s"], ToJson(Rekey)) IN
       \E sent \in SendOutcomes("s") :
         IF sent
         THEN /\ net' = [net EXCEPT !["s2c"] = Append(@, encrypted)]
              /\ sess' = [sess EXCEPT !["s"] = PerformRekey(EncryptSess(@))]
              /\ rekey_due' = FALSE
              /\ UNCHANGED hs
         ELSE /\ sess' = [sess EXCEPT !["s"] = EncryptSess(@)]
              /\ hs' = [hs EXCEPT !["s"] = "Closed"]
              /\ UNCHANGED <<net, rekey_due>>
    /\ UNCHANGED <<psk, lastDec, errs, typed, faults>>
    /\ UNCHANGED notChan

\* -------------------------------------------------------------- faults
\* What an unreliable carrier could do to a transport frame in flight.  The
\* WebSocket/TCP transport the programs use does none of this: these actions
\* are part of SpecFault only.
IsCt(f) == f.t = "ct"

DropFrame(d) ==
    /\ faults = NoFault
    /\ net[d] # <<>>
    /\ IsCt(Head(net[d]))
    /\ net' = [net EXCEPT ![d] = Tail(@)]
    /\ faults' = [kind |-> "drop", dir |-> d]
    /\ UNCHANGED <<psk, hs, sess, rekey_due, lastDec, errs, typed>>
    /\ UNCHANGED notChan

CorruptFrame(d) ==
    /\ faults = NoFault
    /\ net[d] # <<>>
    /\ IsCt(Head(net[d]))
    /\ Head(net[d]).tag
    /\ net' = [net EXCEPT ![d] = <<[Head(@) EXCEPT !.tag = FALSE]>> \o Tail(@)]
    /\ faults' = [kind |-> "corrupt", dir |-> d]
    /\ UNCHANGED <<psk, hs, sess, rekey_due, lastDec, errs, typed>>
    /\ UNCHANGED notChan

SwapFrames(d) ==
    /\ faults = NoFault
    /\ Len(net[d]) >= 2
    /\ IsCt(net[d][1]) /\ IsCt(net[d][2])
    /\ net' = [net EXCEPT ![d] = <<@[2], @[1]>> \o SubSeq(@, 3, Len(@))]
    /\ faults' = [kind |-> "swap", dir |-> d]
    /\ UNCHANGED <<psk, hs, sess, rekey_due, lastDec, errs, typed>>
    /\ UNCHANGED notChan

Dirs == {"c2s", "s2c"}

IsHandshake(f) == f.t \in {"hs1", "hs2", "hs3"}
\* a Message::Text where a handshake message is expected
TextFrame == Frame("text", NoKey, 0, NoJson, TRUE)

\* the handshake message at the head of a direction is damaged in transit,
\* or a frame that is not binary arrives in its place
HandshakeFault(d) ==
    /\ faults = NoFault
    /\ net[d] # <<>>
    /\ IsHandshake(Head(net[d]))
    /\ Head(net[d]).tag
    /\ \E kind \in {"corrupt", "text"} :
          /\ net' = [net EXCEPT ![d] =
                        <<IF kind = "text" THEN TextFrame
                          ELSE [Head(@) EXCEPT !.tag = FALSE]>> \o Tail(@)]
          /\ faults' = [kind |-> kind, dir |-> d]
    /\ UNCHANGED <<psk, hs, sess, rekey_due, lastDec, errs, typed>>
    /\ UNCHANGED notChan

\* --------------------------------------------------------- key supply
PskLen == 32
KeySizes == {16, 32}
KeyVals == {"q1", "q2"}
Users == {"Alice", "Bob", "Server", "Eve"}
Endpoints == {"bob", "relay", "lib"}

Bytes(len, val) == [len |-> len, val |-> val]
NoBytes == Bytes(0, "none")

\* what the key authority may answer to the POST .../enc_keys
KmeAnswers ==
    {[kind |-> k, key |-> NoBytes] :
        k \in {"net_err", "http_err", "bad_json", "no_keys", "bad_b64"}}
    \cup {[kind |-> "key", key |-> Bytes(l, v)] : l \in KeySizes, v \in KeyVals}
\* what loading the PEM and CA files and building the client may come to
LocalOutcomes == {"ok", "cert_err", "build_err"}

Running == [tag |-> "Running", kind |-> "none", why |-> "none"]
Ok == [tag |-> "Ok", kind |-> "none", why |-> "none"]
Err(kind, why) == [tag |-> "Err", kind |-> kind, why |-> why]
Panic == [tag |-> "Panic", kind |-> "none", why |-> "copy_from_slice"]

\* a get_key that trusts the length of the key the authority returns
GetKeyNoSizeCheck(local, size, ans) ==
    IF local = "cert_err"
    THEN [res |-> Err("CertificateError", "files"), key |-> NoBytes, asked |-> FALSE]
    ELSE IF local = "build_err"
    THEN [res |-> Err("NetworkError", "build"), key |-> NoBytes, asked |-> FALSE]
    ELSE IF ans.kind = "net_err"
    THEN [res |-> Err("NetworkError", "request"), key |-> NoBytes, asked |-> TRUE]
    ELSE IF ans.kind # "key"
    THEN [res |-> Err("KeyRetrievalError", ans.kind), key |-> NoBytes, asked |-> TRUE]
    ELSE [res |-> Ok, key |-> ans.key, asked |-> TRUE]

\* QkdClient::get_key / retrieve_qkd_key_from_api: the result, the key and
\* whether the request went out
GetKey(local, size, ans) ==
    IF local = "cert_err"
    THEN [res |-> Err("CertificateError", "files"), key |-> NoBytes, asked |-> FALSE]
    ELSE IF local = "build_err"
    THEN [res |-> Err("NetworkError", "build"), key |-> NoBytes, asked |-> FALSE]
    ELSE IF ans.kind = "net_err"
    THEN [res |-> Err("NetworkError", "request"), key |-> NoBytes, asked |-> TRUE]
    ELSE IF ans.kind # "key"
    THEN [res |-> Err("KeyRetrievalError", ans.kind), key |-> NoBytes, asked |-> TRUE]
    ELSE IF ans.key.len = size
    THEN [res |-> Ok, key |-> ans.key, asked |-> TRUE]
    ELSE [res |-> Err("KeyRetrievalError", "size"), key |-> NoBytes, asked |-> TRUE]

\* a match with an arm for a party asking for its own key
ConfiguredPairsWithSelf ==
    {<<"Alice", "Server">>, <<"Alice", "Bob">>, <<"Bob", "Server">>,
     <<"Bob", "Alice">>, <<"Server", "Alice">>, <<"Server", "Bob">>,
     <<"Alice", "Alice">>}

\* the match of get_key_for_user
ConfiguredPairs ==
    {<<"Alice", "Server">>, <<"Alice", "Bob">>, <<"Bob", "Server">>,
     <<"Bob", "Alice">>, <<"Server", "Alice">>, <<"Server", "Bob">>}

\* who the running program asks a key as, and for whom
Requester == IF kep = "bob" THEN "Bob" ELSE IF kep = "relay" THEN "Server" ELSE kargs[1]
Target ==
    IF kep = "bob" THEN "Server"
    ELSE IF kep = "relay" THEN (IF kpc \in {"getkey1", "check1"} THEN "Alice" ELSE "Bob")
    ELSE kargs[2]

NetOp(op, who) == [op |-> op, who |-> who]

KeyStart ==
    /\ kep \in Endpoints
    /\ kargs \in IF kep = "lib" THEN Users \X Users ELSE {<<"none", "none">>}
    /\ kpc = "load"
    /\ ksize = 0
    /\ kkey = NoBytes
    /\ knet = <<>>
    /\ kres = Running

KeyInit ==
    /\ KeyStart
    /\ klog = {}
    /\ kruns = 1

\* the key supply when only the channel is looked at
KeyIdle ==
    /\ kep = "none"
    /\ kargs = <<"none", "none">>
    /\ kpc = "done"
    /\ ksize = 0
    /\ kkey = NoBytes
    /\ knet = <<>>
    /\ kres = Running
    /\ klog = {}
    /\ kruns = MaxRuns

\* QkdConfig::load
LoadConfig ==
    /\ kpc = "load"
    /\ \E loaded \in BOOLEAN, size \in KeySizes :
         IF loaded
         THEN /\ ksize' = size
              /\ kpc' = IF kep = "lib" THEN "match" ELSE "getkey1"
              /\ UNCHANGED kres
         ELSE /\ kres' = Err("ConfigError", "load")
              /\ kpc' = "done"
              /\ UNCHANGED ksize
    /\ UNCHANGED <<kep, kargs, kkey, knet, klog, kruns>>
    /\ UNCHANGED notKey

\* get_key_for_user: the match on (username, target_username)
LibMatch ==
    /\ kpc = "match"
    /\ IF kargs \in ConfiguredPairs
       THEN kpc' = "getkey1" /\ UNCHANGED kres
       ELSE kpc' = "done" /\ kres' = Err("ConfigError", "pair")
    /\ UNCHANGED <<kep, kargs, ksize, kkey, knet, klog, kruns>>
    /\ UNCHANGED notKey

\* qkd_client.get_key(target).await? in bob.rs, qkd_server.rs and lib.rs
CallGetKey ==
    /\ kpc \in {"getkey1", "getkey2"}
    /\ \E local \in LocalOutcomes, ans \in KmeAnswers :
         LET r == GetKey(local, ksize, ans) IN
         /\ knet' = IF r.asked THEN Append(knet, NetOp("kme", Target)) ELSE knet
         /\ kkey' = r.key
         /\ IF r.res = Ok
            THEN kpc' = (IF kpc = "getkey1" THEN "check1" ELSE "check2")
                 /\ UNCHANGED kres
            ELSE kpc' = "done" /\ kres' = r.res
    /\ UNCHANGED <<kep, kargs, ksize, klog, kruns>>
    /\ UNCHANGED notKey

\* what turning the key into a [u8; 32] comes to: bob.rs 97-103,
\* qkd_server.rs 110-111 and 117-118, lib.rs 54-62
KeyToPsk ==
    IF kkey.len = PskLen THEN Ok
    ELSE IF kep = "relay" THEN Panic
    ELSE IF kep = "bob" THEN Err("BoxedError", "psk_size")
    ELSE Err("KeyRetrievalError", "psk_size")

UseKey ==
    /\ kpc \in {"check1", "check2"}
    /\ IF KeyToPsk = Ok
       THEN /\ klog' = klog \cup {[req |-> Requester, peer |-> Target, key |-> kkey]}
            /\ kpc' = IF kep = "lib" THEN "done"
                      ELSE IF kep = "relay" /\ kpc = "check1" THEN "getkey2"
                      ELSE "net"
            /\ kres' = IF kep = "lib" THEN Ok ELSE kres
       ELSE /\ kres' = KeyToPsk
            /\ kpc' = "done"
            /\ UNCHANGED klog
    /\ UNCHANGED <<kep, kargs, ksize, kkey, knet, kruns>>
    /\ UNCHANGED notKey

\* bob.rs: connect_async; qkd_server.rs: TcpListener::bind
OpenTransport ==
    /\ kpc = "net"
    /\ knet' = Append(knet, NetOp(IF kep = "bob" THEN "ws_connect" ELSE "listen", "Server"))
    /\ kres' = Ok
    /\ kpc' = "done"
    /\ UNCHANGED <<kep, kargs, ksize, kkey, klog, kruns>>
    /\ UNCHANGED notKey

\* another program is started
NextRun ==
    /\ kpc = "done"
    /\ kruns < MaxRuns
    /\ kruns' = kruns + 1
    /\ \E ep \in Endpoints :
         /\ kep' = ep
         /\ kargs' \in IF ep = "lib" THEN Users \X Users ELSE {<<"none", "none">>}
    /\ kpc' = "load"
    /\ ksize' = 0
    /\ kkey' = NoBytes
    /\ knet' = <<>>
    /\ kres' = Running
    /\ UNCHANGED klog
    /\ UNCHANGED notKey

\* -------------------------------------------------------------- relay
Conns == 1..MaxConn
\* the names a peer may declare; the key store holds a PSK for Alice and for Bob
DeclaredNames == {"Alice", "Bob", "Eve"}
QkdKeys == [Alice |-> "k1", Bob |-> "k2"]
AllTarget == "<all>"
BusCapacity == 100

\* ChatMessage and its JSON (no type tag)
ChatMessage(sender, content) == [sender |-> sender, content |-> content]
ChatToJson(m) == [type |-> Absent, sender |-> m.sender, content |-> m.content]
NoChat == ChatMessage(Absent, Absent)
ChatFromJson(j) ==
    IF j.sender # Absent /\ j.content # Absent
    THEN ChatMessage(j.sender, j.content)
    ELSE NoChat
LeftTheChat(name) ==
    IF name = "Alice" THEN "Alice left the chat" ELSE "Bob left the chat"

ServerCommand(target, message) == [target |-> target, message |-> message]

NoConn ==
    [st |-> "free", name |-> "none", id |-> 0, peer |-> FALSE,
     breg |-> 0, bsub |-> 0, bpos |-> 0, creg |-> 0, csub |-> 0, cpos |-> 0,
     \* the "Decryption failed" lines printed for this connection
     derr |-> 0,
     \* whether handle_connection holds the guard of qkd_keys
     keys |-> FALSE]
NoTasks == [b |-> FALSE, c |-> FALSE, r |-> FALSE]

RelayInit ==
    /\ rconn = [i \in Conns |-> NoConn]
    /\ client_counter = 0
    /\ clients = <<>>
    /\ rsess = [i \in Conns |-> NoSession]
    /\ rtask = [i \in Conns |-> NoTasks]
    /\ bus = <<>>
    /\ cmdbus = <<>>
    /\ rout = [i \in Conns |-> <<>>]

\* the relay when only the channel or the key supply is looked at
RelayIdle ==
    /\ rconn = <<>>
    /\ client_counter = 0
    /\ clients = <<>>
    /\ rsess = <<>>
    /\ rtask = <<>>
    /\ bus = <<>>
    /\ cmdbus = <<>>
    /\ rout = <<>>

RegisteredNames == {clients[id] : id \in DOMAIN clients}

\* the lines typed so far by peers and by the operator (departure notices apart)
LinesTyped == Cardinality({k \in DOMAIN bus : bus[k].from # 0}) + Len(cmdbus)

\* a key store that has an entry for every name
KeyStoreHasAny(name) == TRUE

\* keys.get(&client_name) is Some(key)
KeyStoreHas(name) == name \in DOMAIN QkdKeys

\* handle_connection up to the PSK lookup: accept, NAME_REQUEST, the declared
\* name, qkd_keys.get(&client_name).  Connections are accepted in slot order.
RelayAccept(i) ==
    /\ rconn[i].st = "free"
    /\ \A j \in Conns : j < i => rconn[j].st # "free"
    /\ \E name \in DeclaredNames \cup {"none"} :
         rconn' = [rconn EXCEPT ![i] =
            [@ EXCEPT !.name = name,
                      !.peer = KeyStoreHas(name),
                      !.st = IF KeyStoreHas(name) THEN "handshake" ELSE "rejected"]]
    /\ UNCHANGED <<client_counter, clients, rsess, rtask, bus, cmdbus, rout>>
    /\ UNCHANGED notRelay

\* handle_connection at the grain of its awaits.  accept_async,
\* NAME_REQUEST, and the declared name has arrived
RelayName(i) ==
    /\ rconn[i].st = "free"
    /\ \A j \in Conns : j < i => rconn[j].st # "free"
    /\ \E name \in DeclaredNames \cup {"none"} :
         rconn' = [rconn EXCEPT ![i] = [@ EXCEPT !.name = name, !.st = "named"]]
    /\ UNCHANGED <<client_counter, clients, rsess, rtask, bus, cmdbus, rout>>
    /\ UNCHANGED notRelay

\* let keys = qkd_keys.lock().await; match keys.get(&client_name): Some(key)
\* leaves the block and drops the guard; the None arm goes on to
\* ws_sender.send(Message::Close(None)).await inside the block
RelayLookup(i) ==
    /\ rconn[i].st = "named"
    /\ \A j \in Conns : ~rconn[j].keys
    /\ rconn' = [rconn EXCEPT ![i] =
          IF KeyStoreHas(rconn[i].name)
          THEN [@ EXCEPT !.peer = TRUE, !.st = "handshake"]
          ELSE [@ EXCEPT !.st = "closing", !.keys = TRUE]]
    /\ UNCHANGED <<client_counter, clients, rsess, rtask, bus, cmdbus, rout>>
    /\ UNCHANGED notRelay

\* the send of the Close frame has completed (or failed); return drops the
\* guard
RelayCloseSent(i) ==
    /\ rconn[i].st = "closing"
    /\ rconn' = [rconn EXCEPT ![i] = [@ EXCEPT !.st = "rejected", !.keys = FALSE]]
    /\ UNCHANGED <<client_counter, clients, rsess, rtask, bus, cmdbus, rout>>
    /\ UNCHANGED notRelay

\* perform_noise_handshake_responder with the stored PSK, against a peer that
\* holds peer_psk
RelayHandshake(i) ==
    /\ rconn[i].st = "handshake"
    /\ \E peer_psk \in Psks :
         LET mine == QkdKeys[rconn[i].name]
             \* the peer accepts message 2 and the relay message 3 only under equal PSKs
             done == Hs2(mine).k.psk = peer_psk /\ Hs3(peer_psk).k.psk = mine
         IN  IF done
             THEN /\ rsess' = [rsess EXCEPT ![i] = NewSession("s", mine)]
                  /\ rconn' = [rconn EXCEPT ![i].st = "secured"]
             ELSE /\ rconn' = [rconn EXCEPT ![i].st = "failed", ![i].peer = FALSE]
                  /\ UNCHANGED rsess
    /\ UNCHANGED <<client_counter, clients, rtask, bus, cmdbus, rout>>
    /\ UNCHANGED notRelay

\* a relay that goes on to register after Err(e) of the handshake
CanRegisterFailed(st) == st \in {"secured", "failed"}

\* handle_connection: the handshake's Err(e) arm returns, only Ok(session)
\* reaches the registration
CanRegister(st) == st = "secured"

\* client_counter += 1; clients.insert(client_id, client_name)
RelayRegister(i) ==
    /\ CanRegister(rconn[i].st)
    /\ client_counter' = client_counter + 1
    /\ clients' = [id \in DOMAIN clients \cup {client_counter + 1} |->
                      IF id = client_counter + 1 THEN rconn[i].name ELSE clients[id]]
    /\ rconn' = [rconn EXCEPT ![i].st = "registered", ![i].id = client_counter + 1,
                              \* how long the two buses were at that moment
                              ![i].breg = Len(bus), ![i].creg = Len(cmdbus)]
    /\ UNCHANGED <<rsess, rtask, bus, cmdbus, rout>>
    /\ UNCHANGED notRelay

\* broadcast_tx.subscribe(), server_cmd_tx.subscribe(), and the three spawns
RelaySubscribe(i) ==
    /\ rconn[i].st = "registered"
    /\ rconn' = [rconn EXCEPT ![i].st = "running",
                              ![i].bsub = Len(bus), ![i].bpos = Len(bus),
                              ![i].csub = Len(cmdbus), ![i].cpos = Len(cmdbus)]
    /\ rtask' = [rtask EXCEPT ![i] = [b |-> TRUE, c |-> TRUE, r |-> TRUE]]
    /\ UNCHANGED <<client_counter, clients, rsess, bus, cmdbus, rout>>
    /\ UNCHANGED notRelay

\* sender.send(..) of connection i: the sink refuses every frame once the peer
\* has closed (tungstenite: SendAfterClosing / AlreadyClosed)
RelaySendOutcomes(i) == {rconn[i].peer}

Delivery(src, idx, f) == [src |-> src, idx |-> idx, f |-> f]

\* encrypt-and-send by task t of connection i; a failed send ends the task
RelayDeliver(i, t, src, idx, json) ==
    /\ rsess' = [rsess EXCEPT ![i] = EncryptSess(@)]
    /\ \E sent \in RelaySendOutcomes(i) :
         IF sent
         THEN /\ rout' = [rout EXCEPT ![i] =
                             Append(@, Delivery(src, idx, EncryptCt(rsess[i], json)))]
              /\ UNCHANGED rtask
         ELSE /\ rtask' = [rtask EXCEPT ![i][t] = FALSE]
              /\ UNCHANGED rout

\* broadcast_task: chat_msg.sender != client_name_clone
BroadcastShouldSend(chat_msg, client_name) == chat_msg.sender # client_name

\* broadcast_task: one message off the broadcast bus
BroadcastStep(i) ==
    /\ rtask[i].b
    /\ rconn[i].bpos < Len(bus)
    /\ LET idx == rconn[i].bpos + 1
           chat_msg == bus[idx].msg
       IN  /\ rconn' = [rconn EXCEPT ![i].bpos = idx]
           /\ IF Len(bus) - rconn[i].bpos > BusCapacity
              THEN \* RecvError::Lagged ends the while-let
                   /\ rtask' = [rtask EXCEPT ![i].b = FALSE]
                   /\ UNCHANGED <<rsess, rout>>
              ELSE IF BroadcastShouldSend(chat_msg, rconn[i].name)
              THEN RelayDeliver(i, "b", "bus", idx, ChatToJson(chat_msg))
              ELSE UNCHANGED <<rsess, rtask, rout>>
    /\ UNCHANGED <<client_counter, clients, bus, cmdbus>>
    /\ UNCHANGED notRelay

\* server_cmd_task: should_send
CmdShouldSend(cmd, client_name) ==
    IF cmd.target = AllTarget THEN TRUE ELSE cmd.target = client_name

\* server_cmd_task: one command off the command bus
CmdStep(i) ==
    /\ rtask[i].c
    /\ rconn[i].cpos < Len(cmdbus)
    /\ LET idx == rconn[i].cpos + 1
           cmd == cmdbus[idx]
       IN  /\ rconn' = [rconn EXCEPT ![i].cpos = idx]
           /\ IF Len(cmdbus) - rconn[i].cpos > BusCapacity
              THEN /\ rtask' = [rtask EXCEPT ![i].c = FALSE]
                   /\ UNCHANGED <<rsess, rout>>
              ELSE IF CmdShouldSend(cmd, rconn[i].name)
              THEN RelayDeliver(i, "c", "cmd", idx, ChatToJson(cmd.message))
              ELSE UNCHANGED <<rsess, rtask, rout>>
    /\ UNCHANGED <<client_counter, clients, bus, cmdbus>>
    /\ UNCHANGED notRelay

\* a relay that republishes the envelope as the peer wrote it
SenderAsDeclared(client_name, chat_msg) == chat_msg.sender

\* receive_task: ChatMessage { sender: client_name_send.clone(), .. }
PublishedSender(client_name, chat_msg) == client_name

Published(msg, from) == [msg |-> msg, from |-> from]

\* receive_task: the peer's next frame is an encrypted ChatMessage
ReceiveChat(i) ==
    /\ rtask[i].r
    /\ rconn[i].peer
    /\ LinesTyped < MaxLines
    /\ LET s == rsess[i]
           \* the peer's session mirrors the relay's: its next frame is at the
           \* relay's receive key and nonce
           chat == ChatMessage(rconn[i].name, LineAt(LinesTyped + 1))
           f == Frame("ct", s.rk, s.rn, ChatToJson(chat), TRUE)
           chat_msg == ChatFromJson(f.pt)
       IN  /\ rsess' = [rsess EXCEPT ![i] = DecryptSess(s, f)]
           /\ IF DecryptOk(s, f) /\ chat_msg # NoChat
              THEN bus' = Append(bus, Published(
                              ChatMessage(PublishedSender(rconn[i].name, chat_msg),
                                          chat_msg.content), i))
              ELSE UNCHANGED bus
    /\ UNCHANGED <<rconn, client_counter, clients, rtask, cmdbus, rout>>
    /\ UNCHANGED notRelay

\* receive_task: the peer's next frame does not decrypt (its tag is broken);
\* session.decrypt returns Err and the failure is printed
ReceiveGarbled(i) ==
    /\ rtask[i].r
    /\ rconn[i].peer
    /\ rconn[i].derr < MaxGarbled
    \* one faulty peer at a time
    /\ \A j \in Conns \ {i} : rconn[j].derr = 0
    /\ LET s == rsess[i]
           f == Frame("ct", s.rk, s.rn, ChatToJson(ChatMessage(rconn[i].name, LineAt(1))),
                      FALSE)
       IN  /\ rsess' = [rsess EXCEPT ![i] = DecryptSess(s, f)]
           /\ IF DecryptOk(s, f)
              THEN /\ bus' = Append(bus, Published(
                              ChatMessage(PublishedSender(rconn[i].name, ChatFromJson(f.pt)),
                                          ChatFromJson(f.pt).content), i))
                   /\ UNCHANGED rconn
              ELSE /\ rconn' = [rconn EXCEPT ![i].derr = @ + 1]
                   /\ UNCHANGED bus
    /\ UNCHANGED <<client_counter, clients, rtask, cmdbus, rout>>
    /\ UNCHANGED notRelay

\* receive_task while no subscriber is scheduled (each waits in sender.send
\* for a slow peer, or for a worker thread): the peer's next frames, one more
\* than the bus retains, are decrypted and published one after the other
ReceiveBurst(i) ==
    /\ rtask[i].r
    /\ rconn[i].peer
    /\ LinesTyped < MaxLines
    /\ Len(bus) < BusCapacity
    /\ LET s == rsess[i]
           chat == ChatMessage(rconn[i].name, LineAt(LinesTyped + 1))
           f == Frame("ct", s.rk, s.rn, ChatToJson(chat), TRUE)
           chat_msg == ChatFromJson(f.pt)
           burst == [k \in 1..(BusCapacity + 1) |->
                        Published(ChatMessage(PublishedSender(rconn[i].name, chat_msg),
                                              chat_msg.content), i)]
       IN  /\ DecryptOk(s, f)
           /\ rsess' = [rsess EXCEPT ![i] =
                           [DecryptSess(s, f) EXCEPT
                              !.rn = @ + BusCapacity, !.message_count = @ + BusCapacity]]
           /\ bus' = bus \o burst
    /\ UNCHANGED <<rconn, client_counter, clients, rtask, cmdbus, rout>>
    /\ UNCHANGED notRelay

\* receive_task: the peer sends Close, or the stream ends
ReceiveClose(i) ==
    /\ rtask[i].r
    /\ rconn[i].peer
    /\ rconn' = [rconn EXCEPT ![i].peer = FALSE]
    /\ rtask' = [rtask EXCEPT ![i].r = FALSE]
    /\ UNCHANGED <<client_counter, clients, rsess, bus, cmdbus, rout>>
    /\ UNCHANGED notRelay

\* a termination that leaves the record in the registry
RegistryKeep(registry, client_id) == registry

\* clients.lock().await.remove(&client_id)
RegistryRemove(registry, client_id) ==
    [id \in DOMAIN registry \ {client_id} |-> registry[id]]

\* handle_connection after tokio::select!: one of the tasks has ended
RelayTerminate(i) ==
    /\ rconn[i].st = "running"
    /\ ~(rtask[i].b /\ rtask[i].c /\ rtask[i].r)
    /\ clients' = RegistryRemove(clients, rconn[i].id)
    /\ bus' = Append(bus, Published(
                  ChatMessage("Server", LeftTheChat(rconn[i].name)), 0))
    /\ rconn' = [rconn EXCEPT ![i].st = "gone"]
    /\ UNCHANGED <<client_counter, rsess, rtask, cmdbus, rout>>
    /\ UNCHANGED notRelay

\* the server input task: one line, "@name text" or plain text
OperatorLine(target) ==
    /\ LinesTyped < MaxLines
    /\ target = AllTarget \/ target \in RegisteredNames
    /\ cmdbus' = Append(cmdbus, ServerCommand(target,
                     ChatMessage("Server", LineAt(LinesTyped + 1))))
    /\ UNCHANGED <<rconn, client_counter, clients, rsess, rtask, bus, rout>>
    /\ UNCHANGED notRelay

\* ------------------------------------------------------------ lengths
\* NoiseSession::encrypt and decrypt as functions of the buffer lengths.
TagLen == 16
AeadTagLen == 16
\* snow: the largest Noise message
NoiseMaxMsg == 2 ^ 16 - 1
EncErr == -1

\* the plaintext lengths looked at: the short ones and those around the
\* largest payload a Noise message takes
PlainLens ==
    (0..MaxPlainLen)
    \cup ((NoiseMaxMsg - AeadTagLen - MaxPlainLen)..(NoiseMaxMsg - AeadTagLen + MaxPlainLen))

\* an encrypt that forgets the room for the tag
EncryptBufferLenNoTag(len) == len

\* vec![0u8; plaintext.len() + 16]
EncryptBufferLen(len) == len + TagLen

\* snow's write_message: payload and tag, refused when the message would be
\* too long or the buffer too small
WriteMessage(len, buf) ==
    IF len + AeadTagLen > NoiseMaxMsg \/ len + AeadTagLen > buf
    THEN EncErr
    ELSE len + AeadTagLen

\* snow's read_message: the payload without the tag, refused when the
\* message is too long, shorter than a tag, or the buffer too small
ReadMessage(len, buf) ==
    IF len > NoiseMaxMsg \/ len < AeadTagLen \/ len - AeadTagLen > buf
    THEN EncErr
    ELSE len - AeadTagLen

\* Vec::truncate
Truncate(buf, len) == IF len < buf THEN len ELSE buf

\* NoiseSession::encrypt: the length of the ciphertext returned
EncryptLen(len) ==
    LET buf == EncryptBufferLen(len)
        written == WriteMessage(len, buf)
    IN  IF written = EncErr THEN EncErr ELSE Truncate(buf, written)

\* NoiseSession::decrypt: the length of the plaintext returned
DecryptLen(len) ==
    LET buf == len
        read == ReadMessage(len, buf)
    IN  IF read = EncErr THEN EncErr ELSE Truncate(buf, read)

LenInit ==
    /\ lenPc = "plain"
    /\ plainLen \in PlainLens
    /\ cipherLen = EncErr
    /\ backLen = EncErr

\* lengths when another part is looked at
LenIdle ==
    /\ lenPc = "back"
    /\ plainLen = 0
    /\ cipherLen = EncErr
    /\ backLen = EncErr

EncryptPlain ==
    /\ lenPc = "plain"
    /\ cipherLen' = EncryptLen(plainLen)
    /\ lenPc' = "cipher"
    /\ UNCHANGED <<plainLen, backLen>>
    /\ UNCHANGED notLen

DecryptCipher ==
    /\ lenPc = "cipher"
    /\ cipherLen # EncErr
    /\ backLen' = DecryptLen(cipherLen)
    /\ lenPc' = "back"
    /\ UNCHANGED <<plainLen, cipherLen>>
    /\ UNCHANGED notLen

\* ------------------------------------------------------------- duties
\* The spawned tasks of one connected endpoint at the grain of their awaits:
\* every lock().await, every call on the session and every send().await is a
\* step of its own, so that the duties interleave wherever the code lets them.
Programs == {"server", "client", "relay"}
Free == "free"
SendDuties == {"timer_task", "input_task", "broadcast_task", "server_cmd_task"}
RecvDuties == {"incoming_task", "receive_task"}
AllDuties == SendDuties \cup RecvDuties
\* the tasks each program spawns for a connection
Duties(ep) ==
    IF ep = "server" THEN {"timer_task", "input_task", "incoming_task"}
    ELSE IF ep = "client" THEN {"input_task", "incoming_task"}
    ELSE {"broadcast_task", "server_cmd_task", "receive_task"}
\* server and relay share the sink behind a mutex; the client's input_task owns it
SenderShared(ep) == ep # "client"
\* the side of the channel the endpoint plays: only the client is the initiator
DutySide(ep) == IF ep = "client" THEN "c" ELSE "s"

\* what a sending duty encrypts
DutyPayload(ep, d, n) ==
    IF d = "timer_task" THEN ToJson(Rekey)
    ELSE IF d = "input_task"
    THEN ToJson(Chat(IF ep = "server" THEN "Server" ELSE "Client", LineAt(n)))
    ELSE IF d = "broadcast_task"
    THEN ChatToJson(ChatMessage("Bob", LineAt(n)))
    ELSE ChatToJson(ChatMessage("Server", LineAt(n)))

\* a receiver that goes by what the message says instead of its type tag
DutyParseByContent(ep, j) ==
    IF j.content = "rekey" \/ j.type = "rekey" THEN "rekey"
    ELSE IF j.sender # Absent /\ j.content # Absent THEN "chat" ELSE "other"

\* what the receiving duty makes of a decrypted payload: "rekey", "chat" or "other"
DutyParse(ep, j) ==
    IF j.type = "<not utf-8>" THEN "other"
    ELSE IF ep = "relay"
    THEN IF ChatFromJson(j) # NoChat THEN "chat" ELSE "other"
    ELSE IF FromJson(j) = Rekey THEN "rekey"
    ELSE IF FromJson(j) = NoMsg THEN "other" ELSE "chat"

\* tokio::sync::Mutex::lock().await completes only when no guard is alive
\* a mutex that hands out a second guard
CanLockAlways(holder) == TRUE

CanLock(holder) == holder = Free

\* the session guard of a sending duty lives on past encrypt, through the
\* lock of the sink and the send, to the end of the block
\* a guard dropped as soon as encrypt has returned
GuardAfterEncryptDropped(d) == Free

GuardAfterEncrypt(d) == d

NoLast == [st |-> "none", kind |-> "none", before |-> NoSession, pt |-> NoJson]

\* the name the relay registered the connection under (client_name)
RegisteredAs == "Alice"
\* bytes that String::from_utf8 rejects
NotUtf8 == [type |-> "<not utf-8>", sender |-> Absent, content |-> Absent]
\* an object whose type tag no variant of ControlMessage carries
UnknownTag == [type |-> "ping", sender |-> "Peer", content |-> "rekey"]
\* what a peer that holds the key may put into its n-th frame: the two
\* envelopes, a content message that talks about rekeying and names a sender
\* of its own choice, an unknown type tag, and bytes that are no text
InboundPayloads(n) ==
    {ToJson(Rekey), ToJson(Chat("Peer", LineAt(n))), ToJson(Chat("Server", "rekey")),
     UnknownTag, NotUtf8}
\* the peer's n-th ciphertext as it comes off the stream: made under the key
\* the endpoint receives with at that moment (the endpoint may rotate before
\* it gets to decrypt it), or with a byte changed in transit
InboundFrames(k, n) ==
    {Frame("ct", k, n, pt, TRUE) : pt \in InboundPayloads(n)}
        \cup {Frame("ct", k, n, ToJson(Chat("Peer", LineAt(n))), FALSE)}

DutyInit ==
    /\ dep \in Programs
    /\ dpc = [d \in AllDuties |-> IF d \in Duties(dep) THEN "idle" ELSE "off"]
    /\ dsess = NewSession(DutySide(dep), "k1")
    /\ dlock = Free
    /\ dwlock = Free
    /\ dheld = [d \in AllDuties |-> NoFrame]
    /\ dwire = <<>>
    /\ dmade = <<>>
    /\ ddue = FALSE
    /\ dsnap = NoSession
    /\ din = NoFrame
    /\ dinN = 0
    /\ dlast = NoLast
    /\ dops = 0
    /\ dreturned = FALSE
    /\ dpub = <<>>

\* no endpoint is connected
DutyIdle ==
    /\ dep = "none"
    /\ dpc = [d \in AllDuties |-> "off"]
    /\ dsess = NoSession
    /\ dlock = Free
    /\ dwlock = Free
    /\ dheld = [d \in AllDuties |-> NoFrame]
    /\ dwire = <<>>
    /\ dmade = <<>>
    /\ ddue = FALSE
    /\ dsnap = NoSession
    /\ din = NoFrame
    /\ dinN = 0
    /\ dlast = NoLast
    /\ dops = 0
    /\ dreturned = FALSE
    /\ dpub = <<>>

\* Instant::elapsed() reaches rekey_interval
DutyDeadline ==
    /\ dep = "server"
    /\ ~ddue
    /\ dsess.rekey_count < MaxRekey
    /\ ddue' = TRUE
    /\ UNCHANGED <<dpub, dreturned, dep, dpc, dsess, dlock, dwlock, dheld, dwire, dmade, dsnap,
                   din, dinN, dlast, dops>>
    /\ UNCHANGED notDuty

\* timer_task: interval.tick() fires and the lock for should_rekey is granted
DutyTick ==
    /\ dpc["timer_task"] = "idle"
    /\ CanLock(dlock)
    /\ dlock' = "timer_task"
    /\ dpc' = [dpc EXCEPT !["timer_task"] = "check"]
    /\ UNCHANGED <<dpub, dreturned, dep, dsess, dwlock, dheld, dwire, dmade, ddue, dsnap,
                   din, dinN, dlast, dops>>
    /\ UNCHANGED notDuty

\* timer_task: should_rekey() is read and the guard of that block is dropped
DutyCheck ==
    /\ dpc["timer_task"] = "check"
    /\ dlock' = Free
    /\ dpc' = [dpc EXCEPT !["timer_task"] = IF ddue THEN "wait" ELSE "idle"]
    /\ UNCHANGED <<dpub, dreturned, dep, dsess, dwlock, dheld, dwire, dmade, ddue, dsnap,
                   din, dinN, dlast, dops>>
    /\ UNCHANGED notDuty

\* a sending duty gets something to send: a line from stdin, a message of the
\* broadcast channel that passes the duty's filter
DutyWork(d) ==
    /\ d \in SendDuties \ {"timer_task"}
    /\ dpc[d] = "idle"
    /\ dops < MaxDutyOps
    /\ dops' = dops + 1
    /\ dpc' = [dpc EXCEPT ![d] = "wait"]
    /\ UNCHANGED <<dpub, dreturned, dep, dsess, dlock, dwlock, dheld, dwire, dmade, ddue, dsnap,
                   din, dinN, dlast>>
    /\ UNCHANGED notDuty

\* the receiving duty takes the next binary frame from the stream: the
\* peer's dinN-th ciphertext, intact or damaged on the way
DutyFrame(d) ==
    /\ d \in RecvDuties
    /\ dpc[d] = "idle"
    /\ dops < MaxDutyOps
    /\ din' \in InboundFrames(dsess.rk, dinN)
    /\ dinN' = dinN + 1
    /\ dops' = dops + 1
    /\ dpc' = [dpc EXCEPT ![d] = "wait"]
    /\ UNCHANGED <<dpub, dreturned, dep, dsess, dlock, dwlock, dheld, dwire, dmade, ddue, dsnap,
                   dlast>>
    /\ UNCHANGED notDuty

\* Some(Err(e)) from ws_receiver.next(): a transport error on the inbound
\* stream
StreamErrItem == Frame("err", NoKey, 0, NoJson, FALSE)

\* a receive loop that breaks on Some(Err(e))
AfterStreamErrBreaks == "ended"

\* the receive loops match Ok(Binary), Ok(Close) and `_ => {}`: the error
\* item falls into the last arm and the while-let polls the stream again
AfterStreamErr == "idle"

\* the receiving duty is handed the error item
DutyStreamErr(d) ==
    /\ d \in RecvDuties
    /\ dpc[d] = "idle"
    /\ din # StreamErrItem
    /\ din' = StreamErrItem
    /\ dpc' = [dpc EXCEPT ![d] = AfterStreamErr]
    /\ UNCHANGED <<dpub, dreturned, dep, dsess, dlock, dwlock, dheld, dwire, dmade, ddue, dsnap,
                   dinN, dlast, dops>>
    /\ UNCHANGED notDuty

\* the poll after an error item: the stream of the websocket library either
\* reports its end (None: the while-let is over) or the error once more
\* (nothing changes and the loop polls again)
DutyStreamPoll(d) ==
    /\ d \in RecvDuties
    /\ dpc[d] = "idle"
    /\ din = StreamErrItem
    /\ \E none \in BOOLEAN :
         dpc' = [dpc EXCEPT ![d] = IF none THEN "ended" ELSE "idle"]
    /\ UNCHANGED <<dpub, dreturned, dep, dsess, dlock, dwlock, dheld, dwire, dmade, ddue, dsnap,
                   din, dinN, dlast, dops>>
    /\ UNCHANGED notDuty

\* noise_session.lock().await is granted
DutyLock(d) ==
    /\ dpc[d] = "wait"
    /\ CanLock(dlock)
    /\ dlock' = d
    /\ dpc' = [dpc EXCEPT ![d] = "locked"]
    /\ UNCHANGED <<dpub, dreturned, dep, dsess, dwlock, dheld, dwire, dmade, ddue, dsnap,
                   din, dinN, dlast, dops>>
    /\ UNCHANGED notDuty

\* session.encrypt(json.as_bytes()) under the guard
DutyEncrypt(d) ==
    /\ d \in SendDuties
    /\ dpc[d] = "locked"
    /\ LET f == EncryptCt(dsess, DutyPayload(dep, d, dops)) IN
          /\ dheld' = [dheld EXCEPT ![d] = f]
          /\ dmade' = Append(dmade, f)
    /\ dsess' = EncryptSess(dsess)
    /\ dsnap' = IF d = "timer_task" THEN EncryptSess(dsess) ELSE dsnap
    /\ dlock' = IF dlock = d THEN GuardAfterEncrypt(d) ELSE dlock
    /\ dpc' = [dpc EXCEPT ![d] = "encrypted"]
    /\ UNCHANGED <<dpub, dreturned, dep, dwlock, dwire, ddue, din, dinN, dlast, dops>>
    /\ UNCHANGED notDuty

\* ws_sender.lock().await is granted; the client's input_task owns the sink
DutyLockSender(d) ==
    /\ d \in SendDuties
    /\ dpc[d] = "encrypted"
    /\ IF SenderShared(dep)
       THEN CanLock(dwlock) /\ dwlock' = d
       ELSE UNCHANGED dwlock
    /\ dpc' = [dpc EXCEPT ![d] = "sending"]
    /\ UNCHANGED <<dpub, dreturned, dep, dsess, dlock, dheld, dwire, dmade, ddue, dsnap,
                   din, dinN, dlast, dops>>
    /\ UNCHANGED notDuty

\* a timer that rotates whether or not the signal went out
RotateAfterSendAlways(d, sent) == d = "timer_task"

\* perform_rekey() follows the send in the timer alone, and only past the
\* `break` of the Err arm
RotateAfterSend(d, sent) == sent /\ d = "timer_task"

\* sender.send(Message::Binary(encrypted)).await returns; on Ok the timer goes
\* on to session.perform_rekey(); on Err every sending duty breaks; either way
\* the guards of the block are dropped
DutySend(d) ==
    /\ d \in SendDuties
    /\ dpc[d] = "sending"
    /\ \E sent \in BOOLEAN :
          /\ dwire' = IF sent THEN Append(dwire, dheld[d]) ELSE dwire
          /\ dsess' = IF RotateAfterSend(d, sent) THEN PerformRekey(dsess) ELSE dsess
          /\ ddue' = IF RotateAfterSend(d, sent) THEN FALSE ELSE ddue
          /\ dpc' = [dpc EXCEPT ![d] = IF sent THEN "idle" ELSE "ended"]
    /\ dheld' = [dheld EXCEPT ![d] = NoFrame]
    /\ dlock' = IF dlock = d THEN Free ELSE dlock
    /\ dwlock' = IF dwlock = d THEN Free ELSE dwlock
    /\ UNCHANGED <<dpub, dreturned, dep, dmade, dsnap, din, dinN, dlast, dops>>
    /\ UNCHANGED notDuty

\* a receiving duty that gives up on the first frame it cannot decrypt
AfterDecryptErrEnds(ok) == IF ok THEN "idle" ELSE "ended"

\* both arms of `match session.decrypt(..)` fall through to the next turn of
\* the `while let Some(msg)` loop
AfterDecrypt(ok) == "idle"

\* the receiving duty: session.decrypt(&data) under the guard, the payload is
\* parsed; the client's incoming_task calls perform_rekey() on a Rekey, the
\* server's only prints, the relay's republishes a chat; the guard is dropped
DutyDecrypt(d) ==
    /\ d \in RecvDuties
    /\ dpc[d] = "locked"
    /\ LET ok == DecryptOk(dsess, din)
           kind == IF ok THEN DutyParse(dep, din.pt) ELSE "none"
           s1 == DecryptSess(dsess, din)
       IN /\ dsess' = IF dep = "client" /\ kind = "rekey" THEN PerformRekey(s1) ELSE s1
          /\ dlast' = [st |-> IF ok THEN "ok" ELSE "err", kind |-> kind, before |-> dsess,
                        pt |-> din.pt]
          /\ dpub' = IF dep = "relay" /\ kind = "chat"
                     THEN Append(dpub, ChatMessage(
                               PublishedSender(RegisteredAs, ChatFromJson(din.pt)),
                               ChatFromJson(din.pt).content))
                     ELSE dpub
    /\ din' = NoFrame
    /\ dlock' = IF dlock = d THEN Free ELSE dlock
    /\ dpc' = [dpc EXCEPT ![d] = AfterDecrypt(DecryptOk(dsess, din))]
    /\ UNCHANGED <<dreturned, dep, dwlock, dheld, dwire, dmade, ddue, dsnap, dinN, dops>>
    /\ UNCHANGED notDuty

\* serde_json::to_string fails before the session is locked: the timer
\* breaks, the other sending duties drop the message and go on
DutySerializeFail(d) ==
    /\ d \in SendDuties
    /\ dpc[d] = "wait"
    /\ dpc' = [dpc EXCEPT ![d] = IF d = "timer_task" THEN "ended" ELSE "idle"]
    /\ UNCHANGED <<dpub, dreturned, dep, dsess, dlock, dwlock, dheld, dwire, dmade, ddue,
                   dsnap, din, dinN, dlast, dops>>
    /\ UNCHANGED notDuty

\* session.encrypt returns Err: write_message has changed nothing; the timer
\* breaks, the other sending duties drop the message and go on; the guard
\* is dropped
DutyEncryptFail(d) ==
    /\ d \in SendDuties
    /\ dpc[d] = "locked"
    /\ dlock' = IF dlock = d THEN Free ELSE dlock
    /\ dpc' = [dpc EXCEPT ![d] = IF d = "timer_task" THEN "ended" ELSE "idle"]
    /\ UNCHANGED <<dpub, dreturned, dep, dsess, dwlock, dheld, dwire, dmade, ddue,
                   dsnap, din, dinN, dlast, dops>>
    /\ UNCHANGED notDuty

\* tokio::select! over the JoinHandles completes because one duty has ended
\* and the function returns.  In server and client that is the end of main:
\* the runtime shuts down and drops every task still alive.  In the relay
\* handle_connection is itself a spawned task of the accept loop: dropping
\* a JoinHandle detaches the task, the other duties run on.
DutySelect ==
    /\ ~dreturned
    /\ \E d \in Duties(dep) : dpc[d] = "ended"
    /\ dreturned' = TRUE
    /\ IF dep = "relay"
       THEN UNCHANGED <<dpc, dlock, dwlock>>
       ELSE /\ dpc' = [d \in AllDuties |->
                          IF dpc[d] \in {"off", "ended"} THEN dpc[d] ELSE "cancelled"]
            /\ dlock' = Free
            /\ dwlock' = Free
    /\ UNCHANGED <<dpub, dep, dsess, dheld, dwire, dmade, ddue, dsnap, din, dinN, dlast, dops>>
    /\ UNCHANGED notDuty

\* -------------------------------------------------------------- clock
MIN_REKEY_INTERVAL_SECS == 30
MAX_REKEY_INTERVAL_SECS == 120
\* tokio::time::interval(Duration::from_secs(5))
TickPeriod == 5
\* rng.gen_range(MIN_REKEY_INTERVAL_SECS..=MAX_REKEY_INTERVAL_SECS): the two
\* ends of the range, a draw off the tick grid and a draw on it
Intervals ==
    {MIN_REKEY_INTERVAL_SECS, MIN_REKEY_INTERVAL_SECS + 3,
     MIN_REKEY_INTERVAL_SECS + 2 * TickPeriod, MAX_REKEY_INTERVAL_SECS}

\* a deadline that is the moment of the draw itself
DeadlineAfterNone(t, interval) == t

\* Instant::now() + Duration::from_secs(interval)
DeadlineAfter(t, interval) == t + interval

\* a check that does not look at the clock
ShouldRekeyAlways(t, deadline) == TRUE

\* NoiseSession::should_rekey
ShouldRekey(t, deadline) == t >= deadline

\* NoiseSession::new at transport-mode entry and, with no await in between,
\* tokio::spawn(timer_task): the interval's first tick is due at once
ClockInit ==
    /\ now = 0
    /\ \E interval \in Intervals : next_rekey_time = DeadlineAfter(0, interval)
    /\ deadline_set = 0
    /\ next_tick = 0
    /\ tpc = "tick"
    /\ trekeys = 0
    /\ nsignals = 0

\* no session
ClockIdle ==
    /\ now = 0
    /\ next_rekey_time = 0
    /\ deadline_set = 0
    /\ next_tick = 0
    /\ tpc = "off"
    /\ trekeys = 0
    /\ nsignals = 0

\* a second passes; it may pass between any two steps of the timer
ClockAdvance ==
    /\ tpc # "off"
    /\ now < MaxNow
    /\ now' = now + 1
    /\ UNCHANGED <<next_rekey_time, deadline_set, next_tick, tpc, trekeys,
                   nsignals>>
    /\ UNCHANGED notClock

\* interval.tick().await completes and should_rekey() is read under the lock
TimerTick ==
    /\ tpc = "tick"
    /\ now >= next_tick
    /\ next_tick' = next_tick + TickPeriod
    /\ tpc' = IF ShouldRekey(now, next_rekey_time) THEN "due" ELSE "tick"
    /\ UNCHANGED <<now, next_rekey_time, deadline_set, trekeys, nsignals>>
    /\ UNCHANGED notClock

\* the Rekey envelope is serialized, encrypted and sent; any failure breaks
\* the loop before perform_rekey
TimerSignal ==
    /\ tpc = "due"
    /\ \E outcome \in {"sent", "serialize", "encrypt", "send"} :
          IF outcome = "sent"
          THEN /\ nsignals' = nsignals + 1
               /\ tpc' = "signalled"
          ELSE /\ nsignals' = nsignals
               /\ tpc' = "ended"
    /\ UNCHANGED <<now, next_rekey_time, deadline_set, next_tick, trekeys>>
    /\ UNCHANGED notClock

\* session.perform_rekey(): the count goes up and the next deadline is drawn
TimerRotate ==
    /\ tpc = "signalled"
    /\ trekeys' = trekeys + 1
    /\ \E interval \in Intervals : next_rekey_time' = DeadlineAfter(now, interval)
    /\ deadline_set' = now
    /\ tpc' = "tick"
    /\ UNCHANGED <<now, next_tick, nsignals>>
    /\ UNCHANGED notClock

\* ------------------------------------------------------ specifications
Init == ChanInit /\ KeyIdle /\ RelayIdle /\ LenIdle /\ DutyIdle /\ ClockIdle

\* the channel with everything but the carrier's faults
ChanIdle ==
    /\ psk = [c |-> "k1", s |-> "k1"]
    /\ hs = [c |-> "Closed", s |-> "Closed"]
    /\ sess = [x \in Sides |-> NoSession]
    /\ net = [c2s |-> <<>>, s2c |-> <<>>]
    /\ rekey_due = FALSE
    /\ lastDec = [x \in Sides |-> NoDec]
    /\ errs = [x \in Sides |-> 0]
    /\ typed = [x \in Sides |-> 0]
    /\ faults = NoFault

Next ==
    \/ ClientHello
    \/ ServerRecvMsg1
    \/ ClientRecvMsg2
    \/ ServerRecvMsg3
    \/ \E x \in Sides : HandshakeStreamEnd(x)
    \/ ClientInput
    \/ ServerInput
    \/ ClientQuit
    \/ ServerQuit
    \/ ClientIncoming
    \/ ServerIncoming
    \/ \E x \in Sides : StreamEnd(x)
    \/ DeadlinePasses
    \/ ServerTimerRekey

Spec == Init /\ [][Next]_vars

FaultNext ==
    \/ Next
    \/ \E d \in Dirs : DropFrame(d)
    \/ \E d \in Dirs : CorruptFrame(d)
    \/ \E d \in Dirs : SwapFrames(d)

SpecFault == Init /\ [][FaultNext]_vars

HandshakeNext ==
    \/ Next
    \/ \E d \in Dirs : HandshakeFault(d)

SpecHandshake == Init /\ [][HandshakeNext]_vars

\* the two endpoints with the initiator's last step split at its await
HandshakeStepsNext ==
    \/ ClientHello
    \/ ServerRecvMsg1
    \/ ClientReadMsg2
    \/ ClientIntoTransport
    \/ ServerRecvMsg3
    \/ \E x \in Sides : HandshakeStreamEnd(x)
    \/ ClientInput
    \/ ServerInput
    \/ ClientQuit
    \/ ServerQuit
    \/ ClientIncoming
    \/ ServerIncoming
    \/ \E x \in Sides : StreamEnd(x)
    \/ \E d \in Dirs : HandshakeFault(d)

SpecHandshakeSteps == Init /\ [][HandshakeStepsNext]_vars

KeyNext ==
    \/ LoadConfig
    \/ LibMatch
    \/ CallGetKey
    \/ UseKey
    \/ OpenTransport
    \/ NextRun

KeySpecInit == ChanIdle /\ KeyInit /\ RelayIdle /\ LenIdle /\ DutyIdle /\ ClockIdle

SpecKey == KeySpecInit /\ [][KeyNext]_vars

RelayNext ==
    \/ \E i \in Conns : RelayAccept(i)
    \/ \E i \in Conns : RelayHandshake(i)
    \/ \E i \in Conns : RelayRegister(i)
    \/ \E i \in Conns : RelaySubscribe(i)
    \/ \E i \in Conns : BroadcastStep(i)
    \/ \E i \in Conns : CmdStep(i)
    \/ \E i \in Conns : ReceiveChat(i)
    \/ \E i \in Conns : ReceiveClose(i)
    \/ \E i \in Conns : RelayTerminate(i)
    \/ \E target \in {AllTarget} \cup DeclaredNames : OperatorLine(target)

RelaySpecInit == ChanIdle /\ KeyIdle /\ RelayInit /\ LenIdle /\ DutyIdle /\ ClockIdle

SpecRelay == RelaySpecInit /\ [][RelayNext]_vars

\* handle_connection is a task of its own: once select! can return it is
\* scheduled, and the registry lock is held by others only for an insert,
\* a remove or a lookup
SpecRelayFair == SpecRelay /\ \A i \in Conns : WF_vars(RelayTerminate(i))

\* the relay with peers that also send frames that do not decrypt
RelayFaultNext == RelayNext \/ \E i \in Conns : ReceiveGarbled(i)

SpecRelayFault == RelaySpecInit /\ [][RelayFaultNext]_vars

\* the relay with a peer that publishes faster than the subscribers consume
RelayLagNext == RelayNext \/ \E i \in Conns : ReceiveBurst(i)

SpecRelayLag == RelaySpecInit /\ [][RelayLagNext]_vars

\* the relay with the start of handle_connection split at its awaits
RelayLocksNext ==
    \/ \E i \in Conns : RelayName(i)
    \/ \E i \in Conns : RelayLookup(i)
    \/ \E i \in Conns : RelayCloseSent(i)
    \/ \E i \in Conns : RelayHandshake(i)
    \/ \E i \in Conns : RelayRegister(i)
    \/ \E i \in Conns : RelaySubscribe(i)
    \/ \E i \in Conns : BroadcastStep(i)
    \/ \E i \in Conns : CmdStep(i)
    \/ \E i \in Conns : ReceiveChat(i)
    \/ \E i \in Conns : ReceiveClose(i)
    \/ \E i \in Conns : RelayTerminate(i)
    \/ \E target \in {AllTarget} \cup DeclaredNames : OperatorLine(target)

SpecRelayLocks == RelaySpecInit /\ [][RelayLocksNext]_vars

LenNext == EncryptPlain \/ DecryptCipher

LenSpecInit == ChanIdle /\ KeyIdle /\ RelayIdle /\ LenInit /\ DutyIdle /\ ClockIdle

SpecLen == LenSpecInit /\ [][LenNext]_vars

DutyNext ==
    \/ DutyDeadline
    \/ DutyTick
    \/ DutyCheck
    \/ \E d \in AllDuties : DutyWork(d)
    \/ \E d \in AllDuties : DutyFrame(d)
    \/ \E d \in AllDuties : DutyLock(d)
    \/ \E d \in AllDuties : DutyEncrypt(d)
    \/ \E d \in AllDuties : DutyLockSender(d)
    \/ \E d \in AllDuties : DutySend(d)
    \/ \E d \in AllDuties : DutyDecrypt(d)
    \/ \E d \in AllDuties : DutySerializeFail(d)
    \/ \E d \in AllDuties : DutyEncryptFail(d)
    \/ DutySelect

DutySpecInit == ChanIdle /\ KeyIdle /\ RelayIdle /\ LenIdle /\ DutyInit /\ ClockIdle

SpecDuty == DutySpecInit /\ [][DutyNext]_vars

\* the task that awaits select! is woken when a JoinHandle completes
SpecDutyFair == SpecDuty /\ WF_vars(DutySelect)

\* the duties with an inbound stream that can fail
DutyStreamNext ==
    \/ DutyNext
    \/ \E d \in AllDuties : DutyStreamErr(d)
    \/ \E d \in AllDuties : DutyStreamPoll(d)

SpecDutyStream == DutySpecInit /\ [][DutyStreamNext]_vars

ClockNext ==
    \/ ClockAdvance
    \/ TimerTick
    \/ TimerSignal
    \/ TimerRotate

ClockSpecInit == ChanIdle /\ KeyIdle /\ RelayIdle /\ LenIdle /\ DutyIdle /\ ClockInit

SpecClock == ClockSpecInit /\ [][ClockNext]_vars

\* the clock runs and the spawned timer is scheduled whenever it can step
SpecClockFair ==
    /\ SpecClock
    /\ WF_vars(ClockAdvance)
    /\ WF_vars(TimerTick)
    /\ WF_vars(TimerSignal)
    /\ WF_vars(TimerRotate)

\* ------------------------------------------------------------- claims
\* a frame the sender's session produced and the carrier left intact
Genuine(f) == f.t = "ct" /\ f.tag
Decrypted(x) == lastDec[x].st # "none"
IsRekeySignal(f) == f.t = "ct" /\ f.pt.type = "rekey"
SignalsInFlight == Cardinality({i \in DOMAIN net["s2c"] : IsRekeySignal(net["s2c"][i])})

\* C1: built with the same PSK, neither side aborts the handshake, the two
\* sessions hold matching directional keys, and the first message of either
\* direction (nonce 0, no rotation on either end) decrypts to exactly the
\* plaintext that was encrypted.
C1_HandshakeRoundTrip ==
    /\ psk["c"] = psk["s"] => \A x \in Sides : hs[x] # "Aborted"
    /\ \A x \in Sides :
         ( /\ Decrypted(x)
           /\ lastDec[x].f.n = 0
           /\ lastDec[x].f.k.gen = 0
           /\ lastDec[x].rk.gen = 0 )
         => /\ lastDec[x].st = "ok"
            /\ lastDec[x].out = lastDec[x].f.pt
            /\ FromJson(lastDec[x].out).variant \in {"Chat", "Rekey"}

C1_Witness ==
    /\ hs = [c |-> "Transport", s |-> "Transport"]
    /\ \A x \in Sides :
         /\ lastDec[x].st = "ok"
         /\ lastDec[x].f.n = 0
         /\ FromJson(lastDec[x].out) =
                Chat(IF x = "c" THEN "Server" ELSE "Client", "hi")

\* C2: on a carrier that has injected no fault, every decrypt of the client
\* succeeds, and so does every decrypt of a server that has not rotated; a
\* ciphertext that is not at the receiver's next nonce position is rejected
\* with a DecryptionError.
C2_InOrderRoundTrip ==
    \A x \in Sides :
      Decrypted(x) =>
        /\ (faults = NoFault /\ (x = "c" \/ lastDec[x].rk.gen = 0))
               => lastDec[x].st = "ok"
        /\ lastDec[x].f.n # lastDec[x].rn => lastDec[x].st = "err"

C2_Witness ==
    \E x \in Sides :
      /\ lastDec[x].st = "err"
      /\ Genuine(lastDec[x].f)
      /\ lastDec[x].f.k = lastDec[x].rk
      /\ lastDec[x].rn >= 1
      /\ lastDec[x].f.n > lastDec[x].rn

\* C3 (as claimed): after a single dropped or corrupted ciphertext on a
\* direction the receiver reports at most one DecryptionError, and every intact
\* ciphertext the sender produced under the receiver's current key is decrypted.
C3_SingleFaultRecovers ==
    \A x \in Sides :
      ( /\ faults.kind \in {"drop", "corrupt"}
        /\ faults.dir = InDir(x)
        /\ sess[x].rk.gen = 0 )
      => /\ errs[x] <= 1
         /\ (Decrypted(x) /\ Genuine(lastDec[x].f) /\ lastDec[x].f.k = lastDec[x].rk)
                => lastDec[x].st = "ok"

\* C4 (as claimed): a message encrypted after a rekey ceremony (under a rotated
\* key) and decrypted by a peer at the same key generation is decrypted
\* successfully, in both directions.
C4_AfterRekeyRoundTrip ==
    \A x \in Sides :
      ( /\ Decrypted(x)
        /\ lastDec[x].f.k.gen >= 1
        /\ lastDec[x].f.k.gen = lastDec[x].rk.gen )
      => lastDec[x].st = "ok"

C6_OldKeyRejectsNew ==
    \A x \in Sides :
      ( /\ Decrypted(x)
        /\ Genuine(lastDec[x].f)
        /\ lastDec[x].f.k.gen > lastDec[x].rk.gen )
      => lastDec[x].st = "err" /\ lastDec[x].out = NoJson

C6_Witness ==
    /\ lastDec["c"].st = "err"
    /\ Genuine(lastDec["c"].f)
    /\ lastDec["c"].f.k.gen = 1
    /\ lastDec["c"].rk.gen = 0
    /\ lastDec["c"].f.pt.type = "chat"


\* C7: in Bob, the relay and get_key_for_user, a supplied key whose length is
\* not 32 bytes ends the run with a key-mismatch error result, and nothing has
\* gone over the network (no KME request, no connect or listen) before it.
C7_BadLengthBeforeNetwork ==
    ( kpc = "done" /\ kkey # NoBytes /\ kkey.len # PskLen )
    => /\ kres.tag = "Err"
       /\ knet = <<>>

\* a command's addressing, and whether connection i was handed command k
CmdAddressedTo(k, i) ==
    cmdbus[k].target = AllTarget \/ cmdbus[k].target = rconn[i].name
CmdDelivered(k, i) ==
    \E n \in DOMAIN rout[i] :
        /\ rout[i][n].src = "cmd" /\ rout[i][n].idx = k
        /\ rout[i][n].f.t = "ct"
        /\ rout[i][n].f.pt = ChatToJson(cmdbus[k].message)

\* C8: a published operator command is encrypted and delivered to a registered
\* connection X exactly when its target is unset or is X's registered name.
\* Checked where delivery is settled: X was in the registry when the command was
\* published, its peer is still connected and its command duty has nothing
\* left to consume.
C8_CommandAddressing ==
    \A i \in Conns :
        ( rconn[i].st = "running" /\ rconn[i].peer /\ rconn[i].cpos = Len(cmdbus) )
        => \A k \in (rconn[i].creg + 1)..Len(cmdbus) :
               CmdDelivered(k, i) <=> CmdAddressedTo(k, i)

ChatDelivered(k, i) ==
    \E n \in DOMAIN rout[i] :
        /\ rout[i][n].src = "bus" /\ rout[i][n].idx = k
        /\ rout[i][n].f.t = "ct"
        /\ rout[i][n].f.pt = ChatToJson(bus[k].msg)

\* C9: a content message received from connection A is delivered to every other
\* registered connection and never back to A.  Checked for every connection
\* whose fan-out duty has taken the message off the bus while its peer is
\* connected.
C9_FanOutSkipsOnlySender ==
    \A k \in DOMAIN bus : \A i \in Conns :
        ( bus[k].from # 0 /\ rconn[i].bsub < k /\ k <= rconn[i].bpos /\ rconn[i].peer )
        => ( ChatDelivered(k, i) <=> i # bus[k].from )

\* C10: the key A obtains naming B is the key B obtains naming A.
C10_PairKeysAgree ==
    \A a \in klog : \A b \in klog :
        ( a.req = b.peer /\ a.peer = b.req ) => a.key = b.key


\* the six ordered pairs of distinct names among Alice, Bob and Server
SixPairs == {<<a, b>> : a \in {"Alice", "Bob", "Server"}, b \in {"Alice", "Bob", "Server"}}
            \ {<<a, a>> : a \in {"Alice", "Bob", "Server"}}

\* C11: get_key_for_user with any pair other than the six configured ordered
\* pairs never sends a request to the key authority, and ends with a
\* configuration error.
C11_UnknownPairNoRequest ==
    ( kep = "lib" /\ kargs \notin SixPairs )
    => /\ knet = <<>>
       /\ kkey = NoBytes
       /\ kpc = "done" => ( kres.tag = "Err" /\ kres.kind = "ConfigError" )

C11_Witness ==
    /\ kep = "lib" /\ kargs = <<"Alice", "Alice">>
    /\ kpc = "done" /\ kres = Err("ConfigError", "pair")

\* C12: get_key hands back a key only when the decoded key has exactly the
\* configured key_size bytes, and get_key_for_user succeeds only with exactly
\* 32 bytes; for any other answer (another length, an empty key list) the
\* result is an error and no key is returned.
C12_KeyOnlyOfRequiredLength ==
    /\ kkey # NoBytes => kkey.len = ksize
    /\ ( kep = "lib" /\ kpc = "done" /\ kres = Ok )
          => ( kkey # NoBytes /\ kkey.len = PskLen )
    /\ ( kep = "lib" /\ kpc = "done" /\ kkey.len # PskLen ) => kres.tag = "Err"

C12_Witness ==
    /\ kpc = "done" /\ kres = Err("KeyRetrievalError", "size")
    /\ kkey = NoBytes /\ knet # <<>>

\* C14: with in-order lossless delivery every ciphertext is decrypted under
\* the key generation it was encrypted under, in both directions and in every
\* interleaving of client sends with the server's rekey timer.
C14_SameGenerationAtDecrypt ==
    \A x \in Sides :
        Decrypted(x) => lastDec[x].f.k.gen = lastDec[x].rk.gen


\* C13: encrypt of a plaintext of length L returns a ciphertext of length
\* exactly L + 16 for every plaintext it accepts; 5 bytes give 21 bytes.
C13_CiphertextLength ==
    lenPc # "plain" =>
        /\ cipherLen # EncErr => cipherLen = plainLen + 16
        /\ plainLen = 5 => cipherLen = 21

C13_Witness ==
    /\ lenPc = "cipher"
    /\ plainLen = 5 /\ cipherLen = 21

\* the rekey signals among the first n frames of a sequence
SignalsAmong(seq, n) == Cardinality({j \in 1..n : IsRekeySignal(seq[j])})
\* the timer stands between its encrypt of the signal and perform_rekey
TimerInWindow == dpc["timer_task"] \in {"encrypted", "sending"}
\* the duty's next step is an operation on the session
AtSessionOp(d) ==
    \/ dpc[d] \in {"check", "locked"}
    \/ d = "timer_task" /\ TimerInWindow

\* C15: the server's rekey signal is encrypted under the send key that is
\* current before the rotation, the rotation comes strictly after the signal
\* ciphertext exists, and between the two no other encrypt or decrypt touches
\* the session, however the timer, input and receive duties interleave.
C15_SignalThenRotateUninterrupted ==
    /\ TimerInWindow =>
          /\ dsess = dsnap
          /\ dheld["timer_task"].k = dsess.sk
          /\ IsRekeySignal(dheld["timer_task"])
    /\ \A i \in DOMAIN dmade :
          IsRekeySignal(dmade[i]) => dmade[i].k.gen = SignalsAmong(dmade, i - 1)
    /\ dep = "server" => dsess.rekey_count <= SignalsAmong(dmade, Len(dmade))

\* the timer is inside its second signal-to-rotation window while the input
\* and the receive duty both wait for the session
C15_Witness ==
    /\ dep = "server"
    /\ dpc["timer_task"] = "sending"
    /\ dpc["input_task"] = "wait"
    /\ dpc["incoming_task"] = "wait"
    /\ dsess.rekey_count = 1

\* the last inbound message decrypted and was an envelope of kind rekey
RekeyReceived == dlast.st = "ok" /\ dlast.kind = "rekey"

\* C16 as stated: the client and the server alike, on decrypting an envelope
\* of kind rekey, rotate both cipher states on receipt.
C16_AnyEndpointRotatesOnReceipt ==
    ( dep \in {"client", "server"} /\ RekeyReceived )
    => /\ dsess.rk.gen > dlast.before.rk.gen
       /\ dsess.sk.gen > dlast.before.sk.gen

\* C16: the client, on decrypting an envelope of kind rekey, rotates both of
\* its cipher states in the same step, before it decrypts any further inbound
\* message; the server rotates for the signals it sent and for nothing else.
C16_ClientRotatesOnReceipt ==
    /\ ( dep = "client" /\ RekeyReceived )
       => /\ dsess.rk = RekeyKey(dlast.before.rk)
          /\ dsess.sk = RekeyKey(dlast.before.sk)
          /\ dsess.rekey_count = dlast.before.rekey_count + 1
    /\ dep = "server" => dsess.rekey_count = SignalsAmong(dwire, Len(dwire))

\* the client has decrypted a rekey envelope and rotated for it
C16_Witness ==
    /\ dep = "client"
    /\ RekeyReceived
    /\ dsess.rekey_count = 1
    /\ dsess.rn = 1

C17_NoNonceReuse ==
    \A i, j \in DOMAIN dmade :
        ( dmade[i].k.gen = dmade[j].k.gen /\ dmade[i].n = dmade[j].n ) => i = j

\* the relay's fan-out duty and its command duty have both encrypted on the
\* one session of a connection
C17_Witness ==
    /\ dep = "relay"
    /\ Len(dmade) >= 2
    /\ \E i, j \in DOMAIN dmade : dmade[i].pt.sender = "Bob" /\ dmade[j].pt.sender = "Server"

\* C19: at most one duty of a connection is inside an operation on the
\* session (encrypt, decrypt, rotate, deadline check) at any time, and that
\* duty holds the session guard; in server, client and relay.
C19_SessionOpsExclusive ==
    /\ \A d \in AllDuties : AtSessionOp(d) => dlock = d
    /\ \A d1, d2 \in AllDuties : ( AtSessionOp(d1) /\ AtSessionOp(d2) ) => d1 = d2

\* the relay's fan-out duty is about to encrypt while its command duty
\* waits for the session
C19_Witness ==
    /\ dep = "relay"
    /\ dpc["broadcast_task"] = "locked"
    /\ dpc["server_cmd_task"] = "wait"
    /\ dlock = "broadcast_task"

\* C20: frames reach the sink in the order in which they were encrypted: of
\* two frames handed over, the one handed over first was encrypted first,
\* the rekey signal included.
C20_SentInEncryptionOrder ==
    \A i, j \in DOMAIN dwire :
        i < j => \E a, b \in DOMAIN dmade :
                    a < b /\ dmade[a] = dwire[i] /\ dmade[b] = dwire[j]

\* the server has handed over a chat frame, then the rekey signal, then a
\* chat frame under the rotated key
C20_Witness ==
    /\ dep = "server"
    /\ Len(dwire) = 3
    /\ ~IsRekeySignal(dwire[1])
    /\ IsRekeySignal(dwire[2])
    /\ dwire[3].k.gen = 1

\* C21: the server emits a rekey signal only when the current deadline has
\* been reached; a rotation comes at least 30 s after transport-mode entry
\* or the rotation before it; and every deadline lies between 30 s and 120 s
\* after the moment it was set.
C21_NoRekeyBeforeDeadline ==
    /\ []( /\ tpc \in {"due", "signalled"} => now >= next_rekey_time
           /\ next_rekey_time - deadline_set >= 30
           /\ next_rekey_time - deadline_set <= 120 )
    /\ [][ nsignals' # nsignals => now >= next_rekey_time ]_vars
    /\ [][ trekeys' # trekeys => now' >= deadline_set + 30 ]_vars

\* the server has rotated twice and is waiting for the next tick
C21_Witness ==
    /\ trekeys = 2
    /\ nsignals = 2
    /\ tpc = "tick"
    /\ now >= 60

\* C22: once the deadline has passed and the timer keeps running, a tick
\* that follows finds it, one rekey signal is emitted and one rotation is
\* made (or the timer ends on a failure); a signal is only emitted when the
\* rotation for the signal before it is done, and the rotation leaves the
\* deadline in the future, so one elapsed deadline is never rotated for twice.
C22_DueDeadlineRotatesOnce ==
    /\ \A n \in 0..MaxRekey :
          ( tpc = "tick" /\ now >= next_rekey_time /\ trekeys = n /\ next_tick <= MaxNow )
          ~> ( trekeys = n + 1 \/ tpc = "ended" )
    /\ [][ nsignals' # nsignals => ( nsignals = trekeys /\ nsignals' = nsignals + 1 ) ]_vars
    /\ [][ trekeys' # trekeys =>
             ( trekeys' = trekeys + 1 /\ nsignals = trekeys' /\ next_rekey_time' > now' ) ]_vars

\* the deadline drawn at 33 s was found passed at the tick of 35 s and the
\* rotation was made in that same second
C22_Witness ==
    /\ trekeys = 1
    /\ nsignals = 1
    /\ deadline_set = 35
    /\ tpc = "tick"
    /\ next_rekey_time > now

\* every duty of the endpoint is over
AllDutiesOver == \A d \in AllDuties : dpc[d] \in {"off", "ended", "cancelled"}

\* C23: when serializing, encrypting or sending the rekey signal fails, the
\* failing step leaves the session as it was, the server has rotated for the
\* signals that went out and for none besides, and the connection
\* terminates: the function returns and every duty is over.
C23_FailedSignalNoRotation ==
    /\ []( dpc["timer_task"] = "ended" =>
              /\ dsess.rekey_count = SignalsAmong(dwire, Len(dwire))
              /\ dsess.sk.gen = dsess.rekey_count
              /\ dsess.rk.gen = dsess.rekey_count )
    /\ [][ ( dpc["timer_task"] # "ended" /\ dpc'["timer_task"] = "ended" )
           => dsess' = dsess ]_vars
    /\ ( dep = "server" /\ dpc["timer_task"] = "ended" )
       ~> ( dreturned /\ AllDutiesOver )

\* the send of the server's first rekey signal failed: the signal was
\* encrypted and never reached the sink, and the connection is over
C23_Witness ==
    /\ dep = "server"
    /\ dpc["timer_task"] = "ended"
    /\ dmade # <<>>
    /\ IsRekeySignal(dmade[Len(dmade)])
    /\ SignalsAmong(dwire, Len(dwire)) = 0
    /\ dsess.rekey_count = 0
    /\ dreturned
    /\ AllDutiesOver

\* the step in which the receiving duty has decrypt refuse its frame
DecryptFails == din # NoFrame /\ din' = NoFrame /\ ~DecryptOk(dsess, din)

\* C24: a frame that fails to decrypt is dropped and nothing else happens:
\* the session is as before (no rotation), nothing is published for it, the
\* receiving duty goes back to the stream and neither it nor the connection
\* ends; in server, client and relay.
C24_DecryptErrorIsLocal ==
    /\ [][ DecryptFails =>
             /\ dsess' = dsess
             /\ dpub' = dpub
             /\ \A d \in RecvDuties \cap Duties(dep) : dpc'[d] = "idle"
             /\ dreturned' = dreturned ]_vars
    /\ []( \A d \in RecvDuties : dpc[d] # "ended" )

\* the relay could not decrypt a frame, published nothing, and is at work
\* on the frame that came after it
C24_Witness ==
    /\ dep = "relay"
    /\ dlast.st = "err"
    /\ dinN = 2
    /\ dpc["receive_task"] = "locked"
    /\ dpub = <<>>

\* the step in which the receiving duty has decrypt accept its frame
DecryptSucceeds == din # NoFrame /\ din' = NoFrame /\ DecryptOk(dsess, din)
\* the payload is text, decodes as an envelope, and its type tag is rekey
TaggedRekey(j) == j # NotUtf8 /\ j.type = "rekey"

\* C25: a decrypted payload that is no UTF-8 text, no well-formed envelope
\* or carries an unknown type tag is dropped: the receiving duty goes on,
\* the connection stays and no key is rotated.  The client rotates exactly
\* when the decoded envelope's type tag is rekey, whatever a content message
\* names as sender or says; the server rotates for no inbound payload.
C25_OnlyTaggedRekeyRotates ==
    /\ [][ DecryptSucceeds =>
             /\ dsess' = IF dep = "client" /\ TaggedRekey(din.pt)
                         THEN PerformRekey(DecryptSess(dsess, din))
                         ELSE DecryptSess(dsess, din)
             /\ \A d \in RecvDuties \cap Duties(dep) : dpc'[d] = "idle"
             /\ dreturned' = dreturned ]_vars
    /\ []( ( dep \in {"client", "server"} /\ dlast.st = "ok"
             /\ dlast.pt \in {NotUtf8, UnknownTag} ) => dlast.kind = "other" )

\* the client has decrypted a content message that says "rekey" and names
\* the server as its sender, and has not rotated
C25_Witness ==
    /\ dep = "client"
    /\ dlast.st = "ok"
    /\ dlast.pt = ToJson(Chat("Server", "rekey"))
    /\ dlast.kind = "chat"
    /\ dsess.rekey_count = 0
    /\ dpc["incoming_task"] = "idle"

Awaiting(x) == hs[x] \in {"AwaitMsg1", "AwaitMsg2", "AwaitMsg3"}
\* endpoint x takes a frame off its inbound direction
TakesFrame(x) == net[InDir(x)] # <<>> /\ net'[InDir(x)] = Tail(net[InDir(x)])
\* a frame on which a handshake step fails at x: not binary, damaged, or
\* authenticated under a PSK that is not x's own
FailsHandshake(x, f) ==
    \/ ~IsHandshake(f)
    \/ ~f.tag
    \/ f.t \in {"hs2", "hs3"} /\ f.k.psk # psk[x]

\* C26: a handshake step that fails (verification failure, a frame that is
\* not binary, the stream ending) leaves the endpoint aborted; an aborted
\* endpoint has no session, puts nothing more on the wire and stays aborted.
C26_FailedHandshakeAborts ==
    /\ [][ \A x \in Sides :
             ( Awaiting(x) /\ TakesFrame(x) /\ FailsHandshake(x, Head(net[InDir(x)])) )
             => hs'[x] = "Aborted" ]_vars
    /\ [][ \A x \in Sides :
             ( Awaiting(x) /\ hs'[x] # hs[x] /\ ~TakesFrame(x) ) => hs'[x] = "Aborted" ]_vars
    /\ []( \A x \in Sides : hs[x] = "Aborted" => sess[x] = NoSession )
    /\ [][ \A x \in Sides :
             hs[x] = "Aborted" =>
                /\ hs'[x] = "Aborted"
                /\ Len(net'[OutDir(x)]) <= Len(net[OutDir(x)]) ]_vars

\* the client aborted on a text frame in place of the second message, and
\* the server, left waiting for the third, aborted when the stream ended
C26_Witness ==
    /\ hs["c"] = "Aborted"
    /\ hs["s"] = "Aborted"
    /\ faults = [kind |-> "text", dir |-> "s2c"]
    /\ sess = [x \in Sides |-> NoSession]
    /\ net = [c2s |-> <<Hs1>>, s2c |-> <<>>] \/ net = [c2s |-> <<>>, s2c |-> <<>>]

\* C27 as stated: whenever the responder holds a session the initiator
\* holds one too, and with different PSKs neither side enters Transport.
C27_ResponderSessionImpliesInitiators ==
    /\ sess["s"] # NoSession => sess["c"] # NoSession
    /\ psk["c"] # psk["s"] => \A x \in Sides : hs[x] # "Transport" /\ sess[x] = NoSession

\* C27: the initiator enters Transport only after it has read message 2 and
\* its send of message 3 has returned, the responder only after it has read
\* message 1 and then message 3.  Hence whenever the responder holds a
\* session the initiator has written message 3 and holds a session or is
\* about to create one; and with different PSKs neither side ever enters
\* Transport.
C27_TransportAfterMessagesInOrder ==
    /\ [][ ( hs'["c"] = "Transport" /\ hs["c"] # "Transport" ) => hs["c"] = "SentMsg3" ]_vars
    /\ [][ ( hs'["c"] = "SentMsg3" /\ hs["c"] # "SentMsg3" ) =>
             /\ hs["c"] = "AwaitMsg2"
             /\ Head(net["s2c"]).t = "hs2"
             /\ net'["c2s"] = Append(net["c2s"], Hs3(psk["c"])) ]_vars
    /\ [][ ( hs'["s"] = "Transport" /\ hs["s"] # "Transport" ) =>
             hs["s"] = "AwaitMsg3" /\ Head(net["c2s"]).t = "hs3" ]_vars
    /\ [][ ( hs'["s"] = "AwaitMsg3" /\ hs["s"] # "AwaitMsg3" ) =>
             hs["s"] = "AwaitMsg1" /\ Head(net["c2s"]).t = "hs1" ]_vars
    /\ []( \A x \in Sides : sess[x] # NoSession <=> hs[x] \in {"Transport", "Closed"} )
    /\ []( sess["s"] # NoSession => hs["c"] \in {"SentMsg3", "Transport", "Closed"} )
    /\ []( psk["c"] # psk["s"] => \A x \in Sides : hs[x] # "Transport" /\ sess[x] = NoSession )

\* the responder holds its session while the initiator, its third message
\* sent, has not yet created its own
C27_Witness ==
    /\ hs["s"] = "Transport"
    /\ sess["s"] # NoSession
    /\ hs["c"] = "SentMsg3"
    /\ sess["c"] = NoSession

\* C28: every content message the relay publishes for inbound traffic of a
\* connection carries that connection's registered name as sender, whatever
\* sender the decrypted envelope named, and the envelope's content.
C28_PublishedUnderRegisteredName ==
    /\ [](\A k \in DOMAIN dpub : dpub[k].sender = RegisteredAs)
    /\ [][ dpub' # dpub =>
             /\ dep = "relay"
             /\ DecryptOk(dsess, din)
             /\ dpub' = Append(dpub, ChatMessage(RegisteredAs, din.pt.content)) ]_vars

\* the relay has republished an envelope whose sender field named the server
C28_Witness ==
    /\ dep = "relay"
    /\ dlast.st = "ok"
    /\ dlast.kind = "chat"
    /\ dlast.pt.sender = "Server"
    /\ dpub # <<>>
    /\ dpub[Len(dpub)] = ChatMessage(RegisteredAs, dlast.pt.content)

\* a duty of running connection i has ended
DutyEnded(i) == rconn[i].st = "running" /\ ~(rtask[i].b /\ rtask[i].c /\ rtask[i].r)

\* the departure notices on the bus that name n
NoticesFor(n) ==
    {k \in DOMAIN bus : bus[k].from = 0 /\ bus[k].msg = ChatMessage("Server", LeftTheChat(n))}

\* the connections registered as n that have terminated
GoneAs(n) == {i \in Conns : rconn[i].st = "gone" /\ rconn[i].name = n}

\* C29: when one of the three duties of a registered connection has ended,
\* the connection terminates: it does not stay for ever running with an
\* ended duty, and it leaves that state only by terminating, so its record
\* is eventually removed from the registry; one departure notice is
\* published for it, at the moment of the removal, and none before or
\* after; and its id is never in the registry again.
C29_EndedDutyTerminatesConnection ==
    /\ \A i \in Conns : <>[](~DutyEnded(i))
    /\ [][ \A i \in Conns :
             DutyEnded(i) => DutyEnded(i)' \/ rconn'[i].st = "gone" ]_vars
    /\ [](\A n \in DOMAIN QkdKeys : Cardinality(NoticesFor(n)) = Cardinality(GoneAs(n)))
    /\ [](\A i \in Conns : rconn[i].st = "running" => ~DutyEnded(i) \/ rconn[i].id \in DOMAIN clients)
    /\ [][ \A i \in Conns :
             ( rconn[i].st = "running" /\ rconn'[i].st = "gone" ) =>
                 /\ DutyEnded(i)
                 /\ rconn[i].id \in DOMAIN clients
                 /\ rconn[i].id \notin DOMAIN clients'
                 /\ bus' = Append(bus, Published(
                        ChatMessage("Server", LeftTheChat(rconn[i].name)), 0)) ]_vars
    /\ [][ \A id \in 1..client_counter :
             id \notin DOMAIN clients => id \notin DOMAIN clients' ]_vars
    /\ [](\A i \in Conns : rconn[i].st = "gone" => rconn[i].id \notin DOMAIN clients)

\* the first connection has terminated after its peer's Close, its notice is
\* the last entry on the bus, and a later connection is registered
C29_Witness ==
    /\ rconn[1].st = "gone"
    /\ ~rtask[1].r
    /\ rconn[1].id = 1
    /\ 1 \notin DOMAIN clients
    /\ 2 \in DOMAIN clients
    /\ bus # <<>>
    /\ bus[Len(bus)] = Published(ChatMessage("Server", LeftTheChat(rconn[1].name)), 0)
    /\ Cardinality(NoticesFor(rconn[1].name)) = 1

\* C30: closing a connection cancels all of its duties: once the connection
\* has terminated (record removed) none of its duties consumes a further
\* bus message or performs a further encrypt, decrypt or send on its
\* session; and the termination of one connection ends no duty of another.
C30_TerminationCancelsDuties ==
    /\ [][ \A i \in Conns :
             rconn[i].st = "gone" =>
                 /\ rconn'[i].bpos = rconn[i].bpos
                 /\ rconn'[i].cpos = rconn[i].cpos
                 /\ rsess'[i] = rsess[i]
                 /\ rout'[i] = rout[i] ]_vars
    /\ [][ \A i \in Conns :
             ( rconn[i].st = "running" /\ rconn'[i].st = "gone" ) =>
                 \A j \in Conns \ {i} : rtask'[j] = rtask[j] ]_vars

\* every connection other than i is as it was: session, record and duties
OthersUntouched(i) ==
    \A j \in Conns \ {i} :
        /\ rconn'[j] = rconn[j]
        /\ rsess'[j] = rsess[j]
        /\ rtask'[j] = rtask[j]
        /\ rout'[j] = rout[j]

\* the connections that have been given an id
Registered == {i \in Conns : rconn[i].st \in {"registered", "running", "gone"}}

\* C31: a handshake failure or a decryption failure on one relay connection
\* leaves every other connection's session, registry record and duties
\* unchanged; a connection whose handshake failed adds no registry record,
\* consumes no connection id and publishes no departure notice.
C31_FailuresArePerConnection ==
    /\ [][ \A i \in Conns :
             ( rconn[i].st = "handshake" /\ rconn'[i].st = "failed" ) =>
                 /\ OthersUntouched(i)
                 /\ UNCHANGED <<clients, client_counter, bus, cmdbus>> ]_vars
    /\ [][ \A i \in Conns :
             rconn'[i].derr > rconn[i].derr =>
                 /\ OthersUntouched(i)
                 /\ UNCHANGED <<clients, client_counter, bus, cmdbus>>
                 /\ rsess'[i] = rsess[i]
                 /\ rtask'[i] = rtask[i] ]_vars
    /\ [][ \A i \in Conns :
             rconn[i].st = "failed" =>
                 /\ rconn'[i] = rconn[i]
                 /\ rtask'[i] = NoTasks ]_vars
    /\ [](\A i \in Conns :
             rconn[i].st = "failed" =>
                 /\ rconn[i].id = 0
                 /\ rsess[i] = NoSession
                 /\ Cardinality(NoticesFor(rconn[i].name)) = Cardinality(GoneAs(rconn[i].name)))
    /\ [](client_counter = Cardinality(Registered))
    /\ [](\A id \in DOMAIN clients : \E i \in Registered : rconn[i].id = id)

\* one connection's handshake has failed and the other, running, has had a
\* frame that did not decrypt; the running one alone is in the registry
C31_Witness ==
    /\ rconn[1].st = "failed"
    /\ rconn[2].st = "running"
    /\ rconn[2].derr = 1
    /\ rtask[2].r
    /\ client_counter = 1
    /\ DOMAIN clients = {1}
    /\ rconn[2].id = 1

\* subscriber i has fallen behind by more than the bus retains
Overflowed(i) == rtask[i].b /\ Len(bus) - rconn[i].bpos > BusCapacity

\* C32: when a subscriber has fallen behind and the bus (capacity 100) has
\* overflowed, the overflowed oldest messages are not delivered to it, its
\* connection keeps running (its fan-out duty goes on, its record stays)
\* and it resumes at the oldest message the bus still holds.
C32_OverflowDropsOldestAndGoesOn ==
    /\ [][ \A i \in Conns :
             ( Overflowed(i) /\ rconn'[i].bpos # rconn[i].bpos ) =>
                 /\ rtask'[i].b
                 /\ rout'[i] = rout[i]
                 /\ rconn'[i].bpos >= Len(bus) - BusCapacity ]_vars
    /\ [][ \A i \in Conns :
             ( rconn[i].st = "running" /\ rconn[i].peer /\ rconn'[i].peer ) =>
                 rconn'[i].st = "running" ]_vars

\* connection i is waiting for the network: for the peer's name, for the
\* send of the Close frame, for a handshake message
WaitsOnNetwork(i) == rconn[i].st \in {"free", "closing", "handshake"}

\* C33: no exclusion mechanism that guards state shared across connections
\* is held while a connection waits on a network operation, so a pending
\* send or receive of one connection never keeps another connection from
\* its key lookup.
C33_NoSharedLockAcrossNetwork ==
    /\ \A i \in Conns : rconn[i].keys => ~WaitsOnNetwork(i)
    /\ \A j \in Conns : rconn[j].st = "named" => ENABLED RelayLookup(j)

\* C34: each pre-shared key obtained from Key Supply seeds at most one
\* handshake: no two connections of the relay hold sessions whose handshakes
\* were seeded with the same key.
C34_KeySeedsOneHandshake ==
    \A i \in Conns : \A j \in Conns \ {i} :
        ( rsess[i] # NoSession /\ rsess[j] # NoSession ) =>
            rsess[i].sk.psk # rsess[j].sk.psk

\* connection i has declared a name for which the key store has no PSK, and
\* the lookup has been made
Keyless(i) ==
    /\ rconn[i].st \notin {"free", "named"}
    /\ rconn[i].name \notin {"Alice", "Bob"}

\* C35: if the declared name has no PSK in the key store the attempt is
\* fatal: the connection is closed without a handshake (no session is ever
\* made and nothing is encrypted for it), it gets no id and no registry
\* record, runs no duty and publishes no departure notice, and the step that
\* rejects it changes neither the registry, the counter nor the buses.
C35_UnknownNameIsFatal ==
    /\ [](\A i \in Conns :
             Keyless(i) =>
                 /\ rconn[i].st \in {"closing", "rejected"}
                 /\ rconn[i].id = 0
                 /\ rsess[i] = NoSession
                 /\ rout[i] = <<>>
                 /\ rtask[i] = NoTasks)
    /\ [](Cardinality({k \in DOMAIN bus : bus[k].from = 0})
            = Cardinality({i \in Conns : rconn[i].st = "gone"}))
    /\ [][ \A i \in Conns :
             ( ~Keyless(i) /\ Keyless(i)' ) \/ ( Keyless(i) /\ rconn'[i] # rconn[i] ) =>
                 /\ UNCHANGED <<clients, client_counter, bus, cmdbus, rsess, rtask, rout>>
                 /\ rconn'[i].st \in {"closing", "rejected"} ]_vars
    /\ [][ \A i \in Conns : rconn[i].st = "rejected" => rconn'[i] = rconn[i] ]_vars
    /\ [](client_counter = Cardinality(Registered))

\* the first peer declared a name without a PSK and has been turned away;
\* the second is registered with the first id
C35_Witness ==
    /\ rconn[1].st = "rejected"
    /\ rconn[1].name = "Eve"
    /\ rconn[2].st = "running"
    /\ rconn[2].id = 1
    /\ DOMAIN clients = {1}
    /\ bus = <<>>

\* C36: a transport error on the inbound stream is terminal: the receive
\* duty ends on the error item and does not poll the stream again.
C36_StreamErrorEndsReceiveDuty ==
    /\ [][ ( din' = StreamErrItem /\ din # StreamErrItem ) =>
             \A d \in RecvDuties : dpc[d] = "idle" => dpc'[d] = "ended" ]_vars
    /\ []( din = StreamErrItem => \A d \in RecvDuties : dpc[d] \in {"off", "ended", "cancelled"} )

\* the receiving duty has just run session.decrypt on the frame it held
DecryptStep == din # NoFrame /\ din' = NoFrame

\* a sending duty has just run session.encrypt with success
EncryptStep == Len(dmade') = Len(dmade) + 1

\* C37: the session's message counter is the number of successful encrypts
\* plus the number of successful decrypts: each successful operation adds
\* exactly one, a failed encrypt or decrypt leaves the counter and the
\* receive nonce position as they were, and nothing else moves the counter.
C37_CounterCountsSuccesses ==
    /\ [][ DecryptStep =>
             IF DecryptOk(dsess, din)
             THEN /\ dsess'.message_count = dsess.message_count + 1
                  /\ dsess'.rn = dsess.rn + 1
             ELSE /\ dsess'.message_count = dsess.message_count
                  /\ dsess'.rn = dsess.rn
                  /\ dsess'.rk = dsess.rk ]_vars
    /\ [][ EncryptStep => dsess'.message_count = dsess.message_count + 1 ]_vars
    /\ [][ dsess'.message_count # dsess.message_count =>
             EncryptStep \/ ( DecryptStep /\ DecryptOk(dsess, din) ) ]_vars
    /\ [][ ( \E d \in SendDuties : dpc[d] = "locked" /\ dpc'[d] \in {"idle", "ended"} )
             => dsess' = dsess ]_vars
    /\ [](dsess.message_count = Len(dmade) + dsess.rn)

\* one encrypt and one decrypt have succeeded and a damaged frame has just
\* been refused: the counter stands at two
C37_Witness ==
    /\ dlast.st = "err"
    /\ dsess.message_count = 2
    /\ Len(dmade) = 1
    /\ dsess.rn = 1
    /\ dinN = 2

\* C38: there is no window in which a connection is in the registry but not
\* yet subscribed to the two buses: nothing is published between the insert
\* into the registry and the subscriptions, so a subscribed connection has
\* missed nothing that was published since it was registered.
C38_NoRegisteredUnsubscribedWindow ==
    \A i \in Conns :
        /\ rconn[i].st = "registered" =>
               Len(cmdbus) = rconn[i].creg /\ Len(bus) = rconn[i].breg
        /\ rconn[i].st \in {"running", "gone"} =>
               rconn[i].csub = rconn[i].creg /\ rconn[i].bsub = rconn[i].breg

\* C39: the session lock and the sender lock are taken in the order session
\* then sender: whoever holds the sender lock holds the session lock too and
\* is at its send, the sender lock is only acquired by the holder of the
\* session lock, no duty waits for the session lock while it holds the
\* sender lock, and whenever a duty waits for one of the two locks some duty
\* of the connection can take a step on them.
C39_LocksInOrderNoDeadlock ==
    /\ [](\A d \in AllDuties :
             dwlock = d => dlock = d /\ dpc[d] = "sending")
    /\ [][ \A d \in AllDuties :
             ( dwlock' = d /\ dwlock # d ) => dlock = d /\ dlock' = d ]_vars
    /\ [](\A d \in AllDuties : dpc[d] = "wait" => dwlock # d /\ dlock # d)
    /\ []( ( \E d \in AllDuties : dpc[d] \in {"wait", "encrypted"} ) =>
             ENABLED ( \E d \in AllDuties :
                         \/ DutyCheck
                         \/ DutyLock(d)
                         \/ DutyEncrypt(d)
                         \/ DutyDecrypt(d)
                         \/ DutyLockSender(d)
                         \/ DutySend(d) ) )

\* the server's input duty holds session and sender and is at its send while
\* the timer waits for the session
C39_Witness ==
    /\ dep = "server"
    /\ dpc["input_task"] = "sending"
    /\ dlock = "input_task"
    /\ dwlock = "input_task"
    /\ dpc["timer_task"] = "wait"

\* C40: no two connections in the registry have the same display name.
C40_RegisteredNamesUnique ==
    \A a \in DOMAIN clients : \A b \in DOMAIN clients :
        clients[a] = clients[b] => a = b

====
